---- MODULE Spec2Model ----
(***************************************************************************)
(* Verification model of the pregnancy-nutrition backend: the food         *)
(* resolution pipeline (UnifiedFoodService), the cache/dedup service       *)
(* (CacheService), the safety classifier (PregnancySafetyService) and the  *)
(* query classifier (SpoonacularService).                                  *)
(*                                                                         *)
(* Conventions.  A Python str is a tuple of one-character strings, so that *)
(* lower(), split(), strip() and the substring test are computed.  An      *)
(* Optional value is a tuple of length at most one: <<>> is None and <<v>> *)
(* is the value v.  A list column (ARRAY) is kept as the set of its        *)
(* elements.  Times are seconds.                                           *)
(***************************************************************************)
EXTENDS Integers, Sequences, FiniteSets, TLC

\* ------------------------------------------------------------------------
\* Optional values and Python strings
\* ------------------------------------------------------------------------
NULL == <<>>
Some(v) == <<v>>
Val(o) == o[1]

\* Python truthiness of an Optional[str]: None and "" are falsy.
TruthyStr(o) == o # NULL /\ Val(o) # <<>>
\* Python truthiness of an Optional[int]: None and 0 are falsy.
TruthyInt(o) == o # NULL /\ Val(o) # 0

UpperToLower ==
  ("A" :> "a" @@ "B" :> "b" @@ "C" :> "c" @@ "D" :> "d" @@ "E" :> "e" @@ "F" :> "f" @@
   "G" :> "g" @@ "H" :> "h" @@ "I" :> "i" @@ "J" :> "j" @@ "K" :> "k" @@ "L" :> "l" @@
   "M" :> "m" @@ "N" :> "n" @@ "O" :> "o" @@ "P" :> "p" @@ "Q" :> "q" @@ "R" :> "r" @@
   "S" :> "s" @@ "T" :> "t" @@ "U" :> "u" @@ "V" :> "v" @@ "W" :> "w" @@ "X" :> "x" @@
   "Y" :> "y" @@ "Z" :> "z")

UpperCase == DOMAIN UpperToLower

\* str.lower()
Lower(s) == [i \in 1..Len(s) |-> IF s[i] \in UpperCase THEN UpperToLower[s[i]] ELSE s[i]]

UpperOf(c) == IF \E u \in DOMAIN UpperToLower : UpperToLower[u] = c
              THEN CHOOSE u \in DOMAIN UpperToLower : UpperToLower[u] = c
              ELSE c

\* str.capitalize(): first character upper-cased, the rest lower-cased
Capitalize(s) ==
  LET lowered == Lower(s)
  IN  [i \in 1..Len(s) |-> IF i = 1 THEN UpperOf(s[1]) ELSE lowered[i]]

\* Python "a in b" for strings
IsSubstr(a, b) == \E i \in 0..(Len(b) - Len(a)) : \A k \in 1..Len(a) : b[i + k] = a[k]

\* set(s.split()): the maximal runs of non-blank characters
WordSet(s) ==
  LET starts == { i \in 1..Len(s) : s[i] # " " /\ (i = 1 \/ s[i - 1] = " ") }
      End(i) == CHOOSE j \in i..Len(s) :
                  /\ j = Len(s) \/ s[j + 1] = " "
                  /\ \A k \in i..j : s[k] # " "
  IN  { SubSeq(s, i, End(i)) : i \in starts }

\* len(s.split())
RECURSIVE WordCount(_)
WordCount(s) ==
  IF s = <<>> THEN 0
  ELSE IF Head(s) = " " THEN WordCount(Tail(s))
  ELSE IF Len(s) = 1 \/ s[2] = " " THEN 1 + WordCount(Tail(s))
  ELSE WordCount(Tail(s))

\* str.strip()
RECURSIVE LStrip(_)
LStrip(s) == IF s # <<>> /\ Head(s) = " " THEN LStrip(Tail(s)) ELSE s
RECURSIVE RStrip(_)
RStrip(s) == IF s # <<>> /\ s[Len(s)] = " " THEN RStrip(SubSeq(s, 1, Len(s) - 1)) ELSE s
Strip(s) == RStrip(LStrip(s))

\* [part.strip() for part in s.split(",")]
RECURSIVE SplitComma(_, _)
SplitComma(s, cur) ==
  IF s = <<>> THEN <<Strip(cur)>>
  ELSE IF Head(s) = "," THEN <<Strip(cur)>> \o SplitComma(Tail(s), <<>>)
  ELSE SplitComma(Tail(s), Append(cur, Head(s)))

\* the elements of a list
Range(f) == { f[i] : i \in DOMAIN f }

\* [x for x in l if x]
RECURSIVE NonEmpty(_)
NonEmpty(l) ==
  IF l = <<>> THEN <<>>
  ELSE IF Head(l) = <<>> THEN NonEmpty(Tail(l)) ELSE <<Head(l)>> \o NonEmpty(Tail(l))

Digits == {"0", "1", "2", "3", "4", "5", "6", "7", "8", "9"}

\* ------------------------------------------------------------------------
\* Query classifier (services/spoonacular_service.py)
\* ------------------------------------------------------------------------
\* 40 entries
product_indicators ==
  { <<"k","r","a","f","t">>, <<"n","e","s","t","l","e">>, <<"k","e","l","l","o","g","g">>,
    <<"g","e","n","e","r","a","l"," ","m","i","l","l","s">>, <<"p","e","p","s","i">>, <<"c","o","c","a"," ","c","o","l","a">>,
    <<"f","r","i","t","o"," ","l","a","y">>, <<"c","a","m","p","b","e","l","l">>, <<"h","e","i","n","z">>,
    <<"o","r","e","o">>, <<"c","h","e","e","r","i","o","s">>, <<"d","o","r","i","t","o","s">>,
    <<"l","a","y","'","s">>, <<"p","r","i","n","g","l","e","s">>, <<"c","e","r","e","a","l">>,
    <<"c","r","a","c","k","e","r","s">>, <<"c","h","i","p","s">>, <<"c","o","o","k","i","e","s">>,
    <<"f","r","o","z","e","n">>, <<"c","a","n","n","e","d">>, <<"b","o","t","t","l","e","d">>,
    <<"p","a","c","k","a","g","e","d">>, <<"i","n","s","t","a","n","t">>, <<"m","i","x">>,
    <<"s","a","u","c","e">>, <<"d","r","e","s","s","i","n","g">>, <<"s","n","a","c","k">>,
    <<"b","a","r">>, <<"y","o","g","u","r","t">>, <<"c","h","e","e","s","e">>,
    <<"b","r","e","a","d">>, <<"p","a","s","t","a">>, <<"p","i","z","z","a">>,
    <<"s","o","u","p">>, <<"j","u","i","c","e">>, <<"w","h","o","l","e"," ","w","h","e","a","t">>,
    <<"l","o","w"," ","f","a","t">>, <<"o","r","g","a","n","i","c">>, <<"g","l","u","t","e","n"," ","f","r","e","e">>,
    <<"s","u","g","a","r"," ","f","r","e","e">> }

\* 32 entries
ingredient_indicators ==
  { <<"f","r","e","s","h">>, <<"r","a","w">>, <<"g","r","o","u","n","d">>,
    <<"c","h","o","p","p","e","d">>, <<"d","i","c","e","d">>, <<"s","l","i","c","e","d">>,
    <<"w","h","o","l","e">>, <<"a","p","p","l","e">>, <<"b","a","n","a","n","a">>,
    <<"c","a","r","r","o","t">>, <<"o","n","i","o","n">>, <<"g","a","r","l","i","c">>,
    <<"t","o","m","a","t","o">>, <<"p","o","t","a","t","o">>, <<"c","h","i","c","k","e","n">>,
    <<"b","e","e","f">>, <<"p","o","r","k">>, <<"f","i","s","h">>,
    <<"s","a","l","m","o","n">>, <<"t","u","n","a">>, <<"f","l","o","u","r">>,
    <<"s","u","g","a","r">>, <<"s","a","l","t">>, <<"p","e","p","p","e","r">>,
    <<"o","i","l">>, <<"b","u","t","t","e","r">>, <<"e","g","g">>,
    <<"r","i","c","e">>, <<"b","e","a","n","s">>, <<"l","e","n","t","i","l","s">>,
    <<"q","u","i","n","o","a">>, <<"o","a","t","s">> }

\* 42 entries
basic_ingredients ==
  { <<"a","p","p","l","e">>, <<"b","a","n","a","n","a">>, <<"c","a","r","r","o","t">>,
    <<"o","n","i","o","n">>, <<"g","a","r","l","i","c">>, <<"t","o","m","a","t","o">>,
    <<"p","o","t","a","t","o">>, <<"c","h","i","c","k","e","n">>, <<"b","e","e","f">>,
    <<"p","o","r","k">>, <<"f","i","s","h">>, <<"s","a","l","m","o","n">>,
    <<"t","u","n","a">>, <<"e","g","g">>, <<"e","g","g","s">>,
    <<"f","l","o","u","r">>, <<"s","u","g","a","r">>, <<"s","a","l","t">>,
    <<"p","e","p","p","e","r">>, <<"o","i","l">>, <<"b","u","t","t","e","r">>,
    <<"r","i","c","e">>, <<"b","e","a","n","s">>, <<"l","e","n","t","i","l","s">>,
    <<"q","u","i","n","o","a">>, <<"o","a","t","s">>, <<"m","i","l","k">>,
    <<"o","r","a","n","g","e">>, <<"l","e","m","o","n">>, <<"l","i","m","e">>,
    <<"s","t","r","a","w","b","e","r","r","y">>, <<"b","l","u","e","b","e","r","r","y">>, <<"g","r","a","p","e">>,
    <<"l","e","t","t","u","c","e">>, <<"s","p","i","n","a","c","h">>, <<"b","r","o","c","c","o","l","i">>,
    <<"c","a","u","l","i","f","l","o","w","e","r">>, <<"c","u","c","u","m","b","e","r">>, <<"c","h","e","e","s","e">>,
    <<"y","o","g","u","r","t">>, <<"b","r","e","a","d">>, <<"p","a","s","t","a">> }


\* sum(1 for indicator in indicators if indicator in query_lower)
Score(indicators, q) == Cardinality({ ind \in indicators : IsSubstr(ind, q) })

_classify_as_product(query) ==
  LET query_lower == Strip(Lower(query))
      product_score == Score(product_indicators, query_lower)
                       + (IF WordCount(query) > 3 THEN 1 ELSE 0)
                       + (IF \E i \in DOMAIN query : query[i] \in Digits THEN 1 ELSE 0)
      ingredient_score == Score(ingredient_indicators, query_lower)
  IN  product_score > ingredient_score

_is_basic_ingredient(query) ==
  LET query_lower == Strip(Lower(query))
  IN  \E ingredient \in basic_ingredients :
        \/ query_lower = ingredient
        \/ query_lower = ingredient \o <<"s">>
        \/ query_lower \o <<"s">> = ingredient

\* ------------------------------------------------------------------------
\* Safety classifier (services/pregnancy_safety_service.py)
\* ------------------------------------------------------------------------
\* The rule table is data/pregnancy_safety_rules.json, which is loaded at
\* start-up; a rule is [key, status, notes] and the table keeps the file's
\* order.  The table below is a small stand-in for the file.
RuleTable ==
  << [key |-> <<"r","a","w"," ","e","g","g">>, status |-> "avoid", notes |-> <<"rule", <<>> >>],
     [key |-> <<"s","u","g","a","r">>, status |-> "limited", notes |-> <<"rule", <<>> >>],
     [key |-> <<"f","l","o","u","r">>, status |-> "safe", notes |-> <<"rule", <<>> >>],
     [key |-> <<"b","a","n","a","n","a">>, status |-> "safe", notes |-> <<"rule", <<>> >>] >>

\* _load_safety_rules: the table, or {} when the file cannot be read
LoadedRules == {RuleTable, <<>>}

\* an ingredient name matches a rule: exactly, or as a substring either way
MatchesRule(rules, ingredient_name) ==
  LET ingredient_key == Strip(Lower(ingredient_name))
  IN  \E i \in DOMAIN rules :
        \/ rules[i].key = ingredient_key
        \/ IsSubstr(rules[i].key, ingredient_key)
        \/ IsSubstr(ingredient_key, rules[i].key)

get_safety_status(rules, ingredient_name) ==
  LET ingredient_key == Strip(Lower(ingredient_name))
      exact == { i \in DOMAIN rules : rules[i].key = ingredient_key }
      partial == { i \in DOMAIN rules :
                     \/ IsSubstr(rules[i].key, ingredient_key)
                     \/ IsSubstr(ingredient_key, rules[i].key) }
      first(S) == CHOOSE i \in S : \A j \in S : i <= j
  IN  IF exact # {} THEN [status |-> rules[first(exact)].status, notes |-> rules[first(exact)].notes]
      ELSE IF partial # {} THEN [status |-> rules[first(partial)].status, notes |-> rules[first(partial)].notes]
      ELSE [status |-> "limited", notes |-> <<"not_reviewed", <<>> >>]

\* the loop with "elif status == 'limited'" in the place of "elif status ==
\* 'limited' and overall_status != 'avoid'"
RECURSIVE FoodSafetyLoop_LimitedOverrides(_, _, _)
FoodSafetyLoop_LimitedOverrides(rules, ingredients, acc) ==
  IF ingredients = <<>> THEN acc
  ELSE LET ingredient == Head(ingredients)
           status == get_safety_status(rules, ingredient).status
           next == IF status = "avoid"
                   THEN [acc EXCEPT !.overall_status = "avoid",
                                    !.avoid_ingredients = Append(@, ingredient)]
                   ELSE IF status = "limited"
                   THEN [acc EXCEPT !.overall_status = "limited",
                                    !.limited_ingredients = Append(@, ingredient)]
                   ELSE acc
       IN  FoodSafetyLoop_LimitedOverrides(rules, Tail(ingredients), next)

\* the loop of check_food_safety over the ingredient list
RECURSIVE FoodSafetyLoop(_, _, _)
FoodSafetyLoop(rules, ingredients, acc) ==
  IF ingredients = <<>> THEN acc
  ELSE LET ingredient == Head(ingredients)
           status == get_safety_status(rules, ingredient).status
           next == IF status = "avoid"
                   THEN [acc EXCEPT !.overall_status = "avoid",
                                    !.avoid_ingredients = Append(@, ingredient)]
                   ELSE IF status = "limited" /\ acc.overall_status # "avoid"
                   THEN [acc EXCEPT !.overall_status = "limited",
                                    !.limited_ingredients = Append(@, ingredient)]
                   ELSE acc
       IN  FoodSafetyLoop(rules, Tail(ingredients), next)

check_food_safety(rules, ingredients) ==
  LET r == FoodSafetyLoop(rules, ingredients,
             [overall_status |-> "safe", avoid_ingredients |-> <<>>, limited_ingredients |-> <<>>])
  IN  [status |-> r.overall_status,
       notes |-> IF r.avoid_ingredients # <<>> THEN <<"avoid_due", r.avoid_ingredients>>
                 ELSE IF r.limited_ingredients # <<>> THEN <<"moderation_due", r.limited_ingredients>>
                 ELSE <<"generally_safe", <<>> >>]

\* _analyze_pregnancy_safety: check_food_safety, then the status mapped
\* through safety_status_map with FoodSafetyStatus.SAFE as the default
_analyze_pregnancy_safety(rules, ingredients) ==
  LET r == check_food_safety(rules, ingredients)
  IN  [status |-> IF r.status \in {"safe", "limited", "avoid"} THEN r.status ELSE "safe",
       notes |-> r.notes]

\* ------------------------------------------------------------------------
\* Food rows and the foods table (models/food.py)
\* ------------------------------------------------------------------------
\* A Food object.  id is None until the object has been inserted.
FoodFields ==
  { "id", "name", "brand", "description", "category", "serving_size", "serving_unit",
    "calories", "protein", "carbs", "fat", "fiber", "sugar", "micronutrients",
    "ingredients", "allergens", "spoonacular_id", "fdc_id", "safety_status",
    "safety_notes", "usda_confidence", "source", "updated_at" }

\* Food(): every attribute None
EmptyFood == [f \in FoodFields |-> NULL]

\* getattr(obj, field, None) and hasattr(obj, field)
GetAttr(obj, field) == IF field \in DOMAIN obj THEN obj[field] ELSE NULL
HasAttr(obj, field) == field \in DOMAIN obj

\* The two schemas the repository creates the foods table with: the ORM
\* model and the alembic migrations index the external ids without a unique
\* constraint, scripts/migrate_food_schema.py declares UNIQUE(spoonacular_id)
\* and UNIQUE(fdc_id).
Schemas == {"orm", "script"}

\* uq_food_unique: (name, brand, serving_size, serving_unit); SQL NULLs are
\* distinct, so a row with a NULL in one of the columns never conflicts
UqFoodUniqueConflict(a, b) ==
  /\ \A f \in {"name", "brand", "serving_size", "serving_unit"} : a[f] # NULL /\ a[f] = b[f]

ExternalIdConflict(schema, a, b) ==
  /\ schema = "script"
  /\ \/ a.spoonacular_id # NULL /\ a.spoonacular_id = b.spoonacular_id
     \/ a.fdc_id # NULL /\ a.fdc_id = b.fdc_id

\* the NOT NULL columns without a server default
NotNullViolation(row) ==
  \E f \in {"name", "serving_size", "serving_unit", "calories"} : row[f] = NULL

\* the column defaults applied on INSERT
WithServerDefaults(row, now) ==
  [row EXCEPT !.protein = IF @ = NULL THEN Some(0) ELSE @,
              !.carbs = IF @ = NULL THEN Some(0) ELSE @,
              !.fat = IF @ = NULL THEN Some(0) ELSE @,
              !.micronutrients = IF @ = NULL THEN Some(<<>>) ELSE @,
              !.ingredients = IF @ = NULL THEN Some({}) ELSE @,
              !.allergens = IF @ = NULL THEN Some({}) ELSE @,
              !.safety_status = IF @ = NULL THEN Some("safe") ELSE @,
              !.source = IF @ = NULL THEN Some("manual") ELSE @,
              !.updated_at = IF @ = NULL THEN Some(now) ELSE @]

\* the row (with index i) violates a constraint of the table
IntegrityError(schema, table, i, row) ==
  \/ NotNullViolation(row)
  \/ \E j \in DOMAIN table : j # i /\ (UqFoodUniqueConflict(row, table[j])
                                        \/ ExternalIdConflict(schema, row, table[j]))

\* db.add(food); db.commit(); db.refresh(food) of a new object: the table
\* with the row appended, or "IntegrityError"
Insert(schema, table, food, now) ==
  LET i == Len(table) + 1
      row == [WithServerDefaults(food, now) EXCEPT !.id = Some(i)]
  IN  IF IntegrityError(schema, table, i, row)
      THEN [ok |-> FALSE, table |-> table, row |-> row]
      ELSE [ok |-> TRUE, table |-> Append(table, row), row |-> row]

\* db.commit() of changed attributes of the persistent row i
Update(schema, table, i, row) ==
  IF IntegrityError(schema, table, i, row)
  THEN [ok |-> FALSE, table |-> table, row |-> table[i]]
  ELSE [ok |-> TRUE, table |-> [table EXCEPT ![i] = row], row |-> row]

\* query.filter(column == value).first(): no ORDER BY, so any matching row
\* may be the first; {} when there is none
FirstBy(table, field, value) == { i \in DOMAIN table : table[i][field] = value }

\* the sequences that list every element of S once
Perms(S) ==
  { p \in [1..Cardinality(S) -> S] : \A i, j \in 1..Cardinality(S) : p[i] = p[j] => i = j }

Min(a, b) == IF a < b THEN a ELSE b

\* .limit(n).all() of a query without ORDER BY: any n of the rows, in any order
LimitAll(S, n) ==
  UNION { Perms(T) : T \in { U \in SUBSET S : Cardinality(U) = Min(n, Cardinality(S)) } }

\* ------------------------------------------------------------------------
\* Cache/dedup service (services/cache_service.py)
\* ------------------------------------------------------------------------
Hour == 3600
Day == 24 * Hour

\* self.cache_ttl, in hours
cache_ttl == [spoonacular |-> 24 * 7, usda |-> 24 * 30, local |-> 24 * 3]

\* a similarity is the fraction num/den
Zero == [num |-> 0, den |-> 1]
One == [num |-> 1, den |-> 1]

_string_similarity(s1, s2) ==
  IF s1 = <<>> \/ s2 = <<>> THEN Zero
  ELSE LET set1 == WordSet(s1)
           set2 == WordSet(s2)
           intersection == Cardinality(set1 \cap set2)
           union == Cardinality(set1 \cup set2)
       IN  IF set1 = {} /\ set2 = {} THEN One
           ELSE IF union > 0 THEN [num |-> intersection, den |-> union] ELSE Zero

\* similarity > 0.8, with the 70/30 weighting when both brands are given:
\* 0.7 * n + 0.3 * b > 0.8  <=>  7 n.num b.den + 3 b.num n.den > 8 n.den b.den
SimilarAbove80(name1, name2, brand1, brand2) ==
  LET name_sim == _string_similarity(Lower(name1), Lower(name2))
  IN  IF TruthyStr(brand1) /\ TruthyStr(brand2)
      THEN LET brand_sim == _string_similarity(Lower(Val(brand1)), Lower(Val(brand2)))
           IN  7 * name_sim.num * brand_sim.den + 3 * brand_sim.num * name_sim.den
                 > 8 * name_sim.den * brand_sim.den
      ELSE 10 * name_sim.num > 8 * name_sim.den

\* func.lower(Food.name) == name.lower()  OR  Food.name ILIKE '%name%'
NameMatches(row, name) ==
  \/ Lower(Val(row.name)) = Lower(name)
  \/ IsSubstr(Lower(name), Lower(Val(row.name)))

FuzzyLimit == 5

\* find_duplicates with the FDC id looked up before the Spoonacular id
find_duplicates_FdcFirst(table, name, brand, spoonacular_id, fdc_id) ==
  LET spoon == IF TruthyInt(spoonacular_id) THEN FirstBy(table, "spoonacular_id", spoonacular_id) ELSE {}
      usda == IF TruthyInt(fdc_id) THEN FirstBy(table, "fdc_id", fdc_id) ELSE {}
      exact == IF TruthyStr(brand)
               THEN { i \in DOMAIN table :
                        /\ Lower(Val(table[i].name)) = Lower(name)
                        /\ table[i].brand # NULL
                        /\ Lower(Val(table[i].brand)) = Lower(Val(brand)) }
               ELSE {}
      \* strategy 1: the lists it can build
      ids == { u \o s : s \in (IF spoon = {} THEN {<<>>} ELSE { <<i>> : i \in spoon }),
                        u \in (IF usda = {} THEN {<<>>} ELSE { <<i>> : i \in usda }) }
      \* strategy 2 appended
      withExact(d) == IF exact = {} THEN {d}
                      ELSE { IF e \in Range(d) THEN d ELSE Append(d, e) : e \in exact }
      upTo2 == UNION { withExact(d) : d \in ids }
      \* strategy 3, only when nothing was found so far
      name_matches == LimitAll({ i \in DOMAIN table : NameMatches(table[i], name) }, FuzzyLimit)
      Similar(i) == SimilarAbove80(name, Val(table[i].name), brand, table[i].brand)
      fuzzy == { SelectSeq(m, Similar) : m \in name_matches }
  IN  UNION { IF d = <<>> THEN fuzzy ELSE {d} : d \in upTo2 }

\* find_duplicates: the lists of row indexes it can return
find_duplicates(table, name, brand, spoonacular_id, fdc_id) ==
  LET spoon == IF TruthyInt(spoonacular_id) THEN FirstBy(table, "spoonacular_id", spoonacular_id) ELSE {}
      usda == IF TruthyInt(fdc_id) THEN FirstBy(table, "fdc_id", fdc_id) ELSE {}
      exact == IF TruthyStr(brand)
               THEN { i \in DOMAIN table :
                        /\ Lower(Val(table[i].name)) = Lower(name)
                        /\ table[i].brand # NULL
                        /\ Lower(Val(table[i].brand)) = Lower(Val(brand)) }
               ELSE {}
      \* strategy 1: the lists it can build
      ids == { s \o u : s \in (IF spoon = {} THEN {<<>>} ELSE { <<i>> : i \in spoon }),
                        u \in (IF usda = {} THEN {<<>>} ELSE { <<i>> : i \in usda }) }
      \* strategy 2 appended
      withExact(d) == IF exact = {} THEN {d}
                      ELSE { IF e \in Range(d) THEN d ELSE Append(d, e) : e \in exact }
      upTo2 == UNION { withExact(d) : d \in ids }
      \* strategy 3, only when nothing was found so far
      name_matches == LimitAll({ i \in DOMAIN table : NameMatches(table[i], name) }, FuzzyLimit)
      Similar(i) == SimilarAbove80(name, Val(table[i].name), brand, table[i].brand)
      fuzzy == { SelectSeq(m, Similar) : m \in name_matches }
  IN  UNION { IF d = <<>> THEN fuzzy ELSE {d} : d \in upTo2 }

\* is_cache_valid with "<" replaced by "<=": valid also at the expiry instant
is_cache_valid_Inclusive(food, now) ==
  IF food.updated_at = NULL THEN FALSE
  ELSE LET source == IF food.source # NULL THEN Val(food.source) ELSE "local"
           ttl_hours == IF source \in DOMAIN cache_ttl THEN cache_ttl[source] ELSE cache_ttl["local"]
           expiry_time == Val(food.updated_at) + ttl_hours * Hour
       IN  now <= expiry_time

is_cache_valid(food, now) ==
  IF food.updated_at = NULL THEN FALSE
  ELSE LET source == IF food.source # NULL THEN Val(food.source) ELSE "local"
           ttl_hours == IF source \in DOMAIN cache_ttl THEN cache_ttl[source] ELSE cache_ttl["local"]
           expiry_time == Val(food.updated_at) + ttl_hours * Hour
       IN  now < expiry_time

CachedLimit == 3

\* get_cached_food: the results it can give, Some(row index) or None.  The
\* name query is ordered by updated_at descending; rows with the same
\* updated_at come in any order.
get_cached_food(table, query, spoonacular_id, fdc_id, now) ==
  LET spoon == IF TruthyInt(spoonacular_id) THEN FirstBy(table, "spoonacular_id", spoonacular_id) ELSE {}
      usda == IF TruthyInt(fdc_id) THEN FirstBy(table, "fdc_id", fdc_id) ELSE {}
      matches == { i \in DOMAIN table : NameMatches(table[i], query) }
      ordered == { SubSeq(p, 1, Min(CachedLimit, Len(p))) : p \in
                    { q \in Perms(matches) :
                        \A i, j \in DOMAIN q :
                          i < j => Val(table[q[i]].updated_at) >= Val(table[q[j]].updated_at) } }
      Good(i) == /\ is_cache_valid(table[i], now)
                 /\ LET similarity == _string_similarity(Lower(query), Lower(Val(table[i].name)))
                    IN  10 * similarity.num > 7 * similarity.den
      byName == { LET hits == SelectSeq(p, Good)
                  IN  IF hits = <<>> THEN NULL ELSE Some(Head(hits)) : p \in ordered }
      rest2 == byName
      rest1 == { Some(i) : i \in { j \in usda : is_cache_valid(table[j], now) } }
               \cup (IF usda = {} \/ \E j \in usda : ~is_cache_valid(table[j], now) THEN rest2 ELSE {})
  IN  { Some(i) : i \in { j \in spoon : is_cache_valid(table[j], now) } }
      \cup (IF spoon = {} \/ \E j \in spoon : ~is_cache_valid(table[j], now) THEN rest1 ELSE {})

merge_fields ==
  { "name", "brand", "description", "category", "serving_size", "serving_unit",
    "calories", "protein", "carbs", "fat", "fiber", "sugar", "sodium",
    "micronutrients", "ingredients", "allergens", "safety_status", "safety_notes" }

\* dict.update: the keys of new overwrite, the others are preserved
DictUpdate(existing, new) ==
  [k \in DOMAIN existing \cup DOMAIN new |-> IF k \in DOMAIN new THEN new[k] ELSE existing[k]]

\* one field of the merge: the value put into the merged dictionary, None
\* when the field gets no entry
MergedValue(field, existing_val, new_val) ==
  IF new_val # NULL /\ existing_val = NULL THEN new_val
  ELSE IF field \in {"ingredients", "allergens"} /\ new_val # NULL /\ existing_val # NULL
       THEN Some(Val(existing_val) \cup Val(new_val))
  ELSE IF field = "micronutrients" /\ new_val # NULL /\ existing_val # NULL
       THEN Some(DictUpdate(Val(existing_val), Val(new_val)))
  ELSE IF field \in {"safety_status", "safety_notes"} /\ new_val # NULL THEN new_val
  ELSE NULL

\* _merge_food_data: the merged dictionary (a key with value None stands for
\* a key that is absent: cache_food skips both)
_merge_food_data(existing, new) ==
  [field \in merge_fields \cup {"spoonacular_id", "fdc_id"} |->
     IF field = "spoonacular_id"
     THEN IF TruthyInt(new.spoonacular_id) /\ ~TruthyInt(existing.spoonacular_id)
          THEN new.spoonacular_id ELSE NULL
     ELSE IF field = "fdc_id"
     THEN IF TruthyInt(new.fdc_id) /\ ~TruthyInt(existing.fdc_id) THEN new.fdc_id ELSE NULL
     ELSE MergedValue(field, GetAttr(existing, field), GetAttr(new, field))]

\* the loop "for key, value in merged.items(): if hasattr(existing, key) and
\* value is not None: setattr(existing, key, value)", then updated_at
ApplyMerged(existing, merged, now) ==
  [[f \in DOMAIN existing |->
      IF f \in DOMAIN merged /\ HasAttr(existing, f) /\ merged[f] # NULL THEN merged[f] ELSE existing[f]]
     EXCEPT !.updated_at = Some(now)]

\* cache_food: its outcomes [table, ret, raised].  db_error is a failure of
\* the database unrelated to the data (it raises at the first round trip).
cache_food(schema, table, food, merge_duplicates, now, db_error) ==
  LET Raise == [table |-> table, ret |-> NULL, raised |-> TRUE]
      Return(t, i) == [table |-> t, ret |-> Some(i), raised |-> FALSE]
      Merge(i) == LET merged == _merge_food_data(table[i], food)
                      u == Update(schema, table, i, ApplyMerged(table[i], merged, now))
                  IN  IF u.ok THEN Return(u.table, i) ELSE Raise
      New == IF food.id # NULL
             THEN \* db.add of an object that is already persistent
                  LET i == Val(food.id)
                      u == Update(schema, table, i, [table[i] EXCEPT !.updated_at = Some(now)])
                  IN  IF u.ok THEN Return(u.table, i) ELSE Raise
             ELSE LET ins == Insert(schema, table, [food EXCEPT !.updated_at = Some(now)], now)
                  IN  IF ins.ok THEN Return(ins.table, Len(ins.table)) ELSE Raise
  IN  IF db_error \/ food.name = NULL THEN {Raise}
      ELSE { IF duplicates # <<>> /\ merge_duplicates THEN Merge(duplicates[1]) ELSE New :
               duplicates \in find_duplicates(table, Val(food.name), food.brand,
                                              food.spoonacular_id, food.fdc_id) }

\* ------------------------------------------------------------------------
\* Building Food objects from external data (services/unified_food_service.py,
\* models/food.py)
\* ------------------------------------------------------------------------
\* str.replace(" ", "_")
Underscore(s) == [i \in 1..Len(s) |-> IF s[i] = " " THEN "_" ELSE s[i]]

\* " ".join(l)
RECURSIVE Join(_)
Join(l) ==
  IF l = <<>> THEN <<>>
  ELSE IF Len(l) = 1 THEN Head(l)
  ELSE Head(l) \o <<" ">> \o Join(Tail(l))

\* str.replace(";", ",")
SemicolonToComma(s) == [i \in 1..Len(s) |-> IF s[i] = ";" THEN "," ELSE s[i]]

allergen_map ==
  << [allergen |-> <<"m","i","l","k">>,
       keywords |-> { <<"m","i","l","k">>, <<"d","a","i","r","y">>, <<"c","h","e","e","s","e">>, <<"b","u","t","t","e","r">>, <<"c","r","e","a","m">>, <<"y","o","g","u","r","t">>, <<"w","h","e","y">>, <<"c","a","s","e","i","n">> }],
     [allergen |-> <<"e","g","g","s">>,
       keywords |-> { <<"e","g","g">>, <<"a","l","b","u","m","i","n">>, <<"m","a","y","o","n","n","a","i","s","e">> }],
     [allergen |-> <<"f","i","s","h">>,
       keywords |-> { <<"f","i","s","h">>, <<"s","a","l","m","o","n">>, <<"t","u","n","a">>, <<"c","o","d">>, <<"s","a","r","d","i","n","e">>, <<"a","n","c","h","o","v","y">> }],
     [allergen |-> <<"s","h","e","l","l","f","i","s","h">>,
       keywords |-> { <<"s","h","r","i","m","p">>, <<"c","r","a","b">>, <<"l","o","b","s","t","e","r">>, <<"o","y","s","t","e","r">>, <<"c","l","a","m">>, <<"m","u","s","s","e","l">> }],
     [allergen |-> <<"t","r","e","e","_","n","u","t","s">>,
       keywords |-> { <<"a","l","m","o","n","d">>, <<"w","a","l","n","u","t">>, <<"p","e","c","a","n">>, <<"c","a","s","h","e","w">>, <<"p","i","s","t","a","c","h","i","o">>, <<"h","a","z","e","l","n","u","t">>, <<"b","r","a","z","i","l"," ","n","u","t">> }],
     [allergen |-> <<"p","e","a","n","u","t","s">>,
       keywords |-> { <<"p","e","a","n","u","t">>, <<"g","r","o","u","n","d","n","u","t">> }],
     [allergen |-> <<"w","h","e","a","t">>,
       keywords |-> { <<"w","h","e","a","t">>, <<"f","l","o","u","r">>, <<"g","l","u","t","e","n">>, <<"b","r","e","a","d">>, <<"p","a","s","t","a">> }],
     [allergen |-> <<"s","o","y">>,
       keywords |-> { <<"s","o","y">>, <<"s","o","y","b","e","a","n">>, <<"t","o","f","u">>, <<"t","e","m","p","e","h">>, <<"m","i","s","o">> }] >>

\* _extract_allergens
_extract_allergens(ingredients) ==
  LET ingredients_text == Lower(Join(ingredients))
  IN  { allergen_map[i].allergen : i \in
          { j \in DOMAIN allergen_map :
              \E keyword \in allergen_map[j].keywords : IsSubstr(keyword, ingredients_text) } }

\* _extract_ingredients
_extract_ingredients(nutrition_data, data_type, fallback_name) ==
  LET fromList == IF data_type = "product" /\ nutrition_data.ingredientList # <<>>
                  THEN NonEmpty(SplitComma(SemicolonToComma(nutrition_data.ingredientList), <<>>))
                  ELSE <<>>
      fromNutrition == IF fromList # <<>> THEN fromList
                       ELSE NonEmpty(nutrition_data.nutrition.ingredients)
      food_name == IF TruthyStr(nutrition_data.title) THEN Val(nutrition_data.title)
                   ELSE IF TruthyStr(nutrition_data.name) THEN Val(nutrition_data.name)
                   ELSE fallback_name
  IN  NonEmpty(IF fromNutrition # <<>> THEN fromNutrition ELSE <<food_name>>)

\* the micronutrient dictionary built from a nutrient list: the key is the
\* lower-cased name with blanks replaced, a later entry overwrites an earlier
NutrientDict(nutrients, percent_key) ==
  LET keys == { Underscore(Lower(nutrients[i].name)) : i \in DOMAIN nutrients }
      last(k) == CHOOSE i \in DOMAIN nutrients :
                   /\ Underscore(Lower(nutrients[i].name)) = k
                   /\ \A j \in DOMAIN nutrients : Underscore(Lower(nutrients[j].name)) = k => j <= i
  IN  [k \in keys |-> ("amount" :> nutrients[last(k)].amount) @@ ("unit" :> nutrients[last(k)].unit)
                       @@ (percent_key :> nutrients[last(k)].percent)]

Has(word, name) == IsSubstr(word, name)

\* the loop over the nutrient list in _create_and_cache_food (ingredient data)
RECURSIVE IngredientMacros(_, _)
IngredientMacros(nutrients, food) ==
  IF nutrients = <<>> THEN food
  ELSE LET name == Lower(Head(nutrients).name)
           amount == Some(Head(nutrients).amount)
           next == IF Has(<<"c","a","l","o","r","i","e","s">>, name) \/ Has(<<"e","n","e","r","g","y">>, name)
                     THEN [food EXCEPT !.calories = amount]
                   ELSE IF Has(<<"p","r","o","t","e","i","n">>, name) THEN [food EXCEPT !.protein = amount]
                   ELSE IF Has(<<"c","a","r","b","o","h","y","d","r","a","t","e","s">>, name) \/ Has(<<"c","a","r","b","s">>, name)
                     THEN [food EXCEPT !.carbs = amount]
                   ELSE IF Has(<<"f","a","t">>, name) /\ ~Has(<<"s","a","t","u","r","a","t","e","d">>, name)
                     THEN [food EXCEPT !.fat = amount]
                   ELSE IF Has(<<"f","i","b","e","r">>, name) THEN [food EXCEPT !.fiber = amount]
                   ELSE IF Has(<<"s","u","g","a","r">>, name) THEN [food EXCEPT !.sugar = amount]
                   ELSE food
       IN  IngredientMacros(Tail(nutrients), next)

\* the loop over the nutrient list in from_spoonacular_product_data
RECURSIVE ProductMacros(_, _)
ProductMacros(nutrients, food) ==
  IF nutrients = <<>> THEN food
  ELSE LET name == Lower(Head(nutrients).name)
           amount == Some(Head(nutrients).amount)
           next == IF Has(<<"c","a","l","o","r","i","e","s">>, name) \/ Has(<<"e","n","e","r","g","y">>, name)
                     THEN [food EXCEPT !.calories = amount]
                   ELSE IF Has(<<"p","r","o","t","e","i","n">>, name) THEN [food EXCEPT !.protein = amount]
                   ELSE IF Has(<<"c","a","r","b","o","h","y","d","r","a","t","e","s">>, name) THEN [food EXCEPT !.carbs = amount]
                   ELSE IF Has(<<"f","a","t">>, name) /\ ~Has(<<"s","a","t","u","r","a","t","e","d">>, name)
                     THEN [food EXCEPT !.fat = amount]
                   ELSE IF Has(<<"f","i","b","e","r">>, name) THEN [food EXCEPT !.fiber = amount]
                   ELSE IF Has(<<"s","u","g","a","r">>, name) THEN [food EXCEPT !.sugar = amount]
                   ELSE food
       IN  ProductMacros(Tail(nutrients), next)

\* the loop over foodNutrients in from_usda_data
RECURSIVE UsdaMacros(_, _)
UsdaMacros(nutrients, food) ==
  IF nutrients = <<>> THEN food
  ELSE LET name == Lower(Head(nutrients).name)
           amount == Some(Head(nutrients).amount)
           total == Has(<<"t","o","t","a","l">>, name)
           next == IF name = <<>> THEN food
                   ELSE IF Has(<<"p","r","o","t","e","i","n">>, name) THEN [food EXCEPT !.protein = amount]
                   ELSE IF Has(<<"c","a","r","b","o","h","y","d","r","a","t","e">>, name) /\ total THEN [food EXCEPT !.carbs = amount]
                   ELSE IF Has(<<"f","a","t">>, name) /\ total THEN [food EXCEPT !.fat = amount]
                   ELSE IF Has(<<"f","i","b","e","r">>, name) /\ Has(<<"d","i","e","t","a","r","y">>, name)
                     THEN [food EXCEPT !.fiber = amount]
                   ELSE IF Has(<<"s","u","g","a","r">>, name) /\ total THEN [food EXCEPT !.sugar = amount]
                   ELSE IF Has(<<"e","n","e","r","g","y">>, name) /\ Lower(Head(nutrients).unit) = <<"k","c","a","l">>
                     THEN [food EXCEPT !.calories = amount]
                   ELSE food
       IN  UsdaMacros(Tail(nutrients), next)

\* the Food built by _create_and_cache_food from ingredient data
food_from_ingredient_data(nutrition_data, food_id) ==
  LET zero == [EmptyFood EXCEPT !.calories = Some(0), !.protein = Some(0), !.carbs = Some(0),
                                 !.fat = Some(0), !.fiber = Some(0), !.sugar = Some(0)]
      macros == IngredientMacros(nutrition_data.nutrition.nutrients, zero)
  IN  [macros EXCEPT !.source = Some("spoonacular"),
                     !.spoonacular_id = Some(food_id),
                     !.name = IF nutrition_data.title # NULL THEN nutrition_data.title
                              ELSE Some(<<"U","n","k","n","o","w","n"," ","F","o","o","d">>),
                     !.micronutrients = Some(NutrientDict(nutrition_data.nutrition.nutrients, "percent_daily_value")),
                     !.serving_size = Some(100),
                     !.serving_unit = Some(<<"g">>)]

\* Food.from_spoonacular_product_data
from_spoonacular_product_data(product_data) ==
  LET macros == ProductMacros(product_data.nutrition.nutrients, EmptyFood)
      ingredient_list == product_data.ingredientList
  IN  [macros EXCEPT !.source = Some("spoonacular"),
                     !.spoonacular_id = product_data.id,
                     !.name = IF product_data.title # NULL THEN product_data.title
                              ELSE Some(<<"U","n","k","n","o","w","n">>),
                     !.description = Some(product_data.generatedText),
                     !.category = Some(product_data.aisle),
                     !.ingredients = IF ingredient_list # <<>>
                                     THEN Some(Range(SplitComma(SemicolonToComma(ingredient_list), <<>>)))
                                     ELSE NULL,
                     !.micronutrients = Some(NutrientDict(product_data.nutrition.nutrients, "percent_daily_needs")),
                     !.serving_size = Some(product_data.servings.size),
                     !.serving_unit = Some(product_data.servings.unit)]

\* Food.from_usda_data
from_usda_data(usda_data) ==
  LET macros == UsdaMacros(usda_data.foodNutrients, EmptyFood)
      ingredients_text == usda_data.ingredients
      Named(nutrient) == nutrient.name # <<>>
  IN  [macros EXCEPT !.source = Some("usda"),
                     !.fdc_id = usda_data.fdcId,
                     !.name = Some(Capitalize(usda_data.description)),
                     !.brand = usda_data.brandOwner,
                     !.category = usda_data.foodCategory,
                     !.description = Some(ingredients_text),
                     !.ingredients = IF ingredients_text # <<>>
                                     THEN Some(Range(SplitComma(ingredients_text, <<>>))) ELSE NULL,
                     !.serving_size = Some(100),
                     !.serving_unit = Some(<<"g">>),
                     !.micronutrients = Some(NutrientDict(SelectSeq(usda_data.foodNutrients, Named), "percent_daily_value"))]

\* ------------------------------------------------------------------------
\* The external sources: what they hold for each query
\* ------------------------------------------------------------------------
Egg == <<"e","g","g">>
OreoCookies == <<"o","r","e","o"," ","c","o","o","k","i","e","s">>
Queries == {Egg, OreoCookies}

\* Spoonacular /food/ingredients/search
IngredientCatalog(query) ==
  IF query = Egg THEN <<[id |-> 11, name |-> Egg]>> ELSE <<>>

\* Spoonacular /food/products/search
ProductCatalog(query) ==
  IF query = OreoCookies THEN <<[id |-> 21, title |-> <<"O","r","e","o"," ","C","o","o","k","i","e","s">>]>> ELSE <<>>

\* Spoonacular /food/ingredients/{id}/information and /food/products/{id}
SpoonacularData(food_id) ==
  IF food_id = 11
  THEN [id |-> Some(11), title |-> NULL, name |-> Some(Egg), ingredientList |-> <<>>,
        generatedText |-> <<>>, aisle |-> <<"E","g","g","s">>, servings |-> [size |-> 100, unit |-> <<"g">>],
        nutrition |-> [nutrients |-> <<[name |-> <<"C","a","l","o","r","i","e","s">>, amount |-> 143, unit |-> <<"k","c","a","l">>, percent |-> NULL],
                                      [name |-> <<"P","r","o","t","e","i","n">>, amount |-> 13, unit |-> <<"g">>, percent |-> NULL]>>,
                       ingredients |-> <<>>]]
  ELSE [id |-> Some(21), title |-> Some(<<"O","r","e","o"," ","C","o","o","k","i","e","s">>), name |-> NULL,
        ingredientList |-> <<"s","u","g","a","r",";"," ","f","l","o","u","r">>,
        generatedText |-> <<>>, aisle |-> <<"S","n","a","c","k","s">>, servings |-> [size |-> 34, unit |-> <<"g">>],
        nutrition |-> [nutrients |-> <<[name |-> <<"C","a","l","o","r","i","e","s">>, amount |-> 160, unit |-> <<"k","c","a","l">>, percent |-> NULL],
                                      [name |-> <<"S","u","g","a","r">>, amount |-> 14, unit |-> <<"g">>, percent |-> NULL]>>,
                       ingredients |-> <<>>]]

\* USDA /foods/search
UsdaCatalog(query) ==
  IF query = Egg THEN <<[fdcId |-> Some(31), description |-> <<"E","G","G",","," ","R","A","W">>]>>
  ELSE <<[fdcId |-> Some(32), description |-> <<"O","R","E","O"," ","C","O","O","K","I","E","S">>]>>

\* USDA /food/{fdcId}
UsdaData(fdc_id) ==
  IF fdc_id = 31
  THEN [fdcId |-> Some(31), description |-> <<"E","G","G",","," ","R","A","W">>, brandOwner |-> NULL,
        foodCategory |-> NULL, ingredients |-> <<>>,
        foodNutrients |-> <<[name |-> <<"E","n","e","r","g","y">>, amount |-> 143, unit |-> <<"K","C","A","L">>, percent |-> NULL],
                            [name |-> <<"P","r","o","t","e","i","n">>, amount |-> 13, unit |-> <<"G">>, percent |-> NULL]>>]
  ELSE [fdcId |-> Some(32), description |-> <<"O","R","E","O"," ","C","O","O","K","I","E","S">>, brandOwner |-> Some(<<"M","o","n","d","e","l","e","z">>),
        foodCategory |-> Some(<<"C","o","o","k","i","e","s">>), ingredients |-> <<"S","U","G","A","R",","," ","F","L","O","U","R">>,
        foodNutrients |-> <<[name |-> <<"E","n","e","r","g","y">>, amount |-> 471, unit |-> <<"K","C","A","L">>, percent |-> NULL],
                            [name |-> <<"S","u","g","a","r","s",","," ","t","o","t","a","l">>, amount |-> 41, unit |-> <<"G">>, percent |-> NULL]>>]

\* ------------------------------------------------------------------------
\* NutritionCalculatorService (services/nutrition_calculator_service.py)
\* ------------------------------------------------------------------------
\* Python floats are modelled as exact fractions [num, den] in lowest terms
\* with a positive denominator.
Abs(n) == IF n < 0 THEN -n ELSE n

RECURSIVE Gcd(_, _)
Gcd(a, b) == IF b = 0 THEN a ELSE Gcd(b, a % b)

Frac(n, d) ==
  LET g == Gcd(Abs(n), Abs(d))
      s == IF d < 0 THEN -1 ELSE 1
  IN  [num |-> (s * n) \div g, den |-> (s * d) \div g]

FromInt(n) == [num |-> n, den |-> 1]
FracMul(a, b) == Frac(a.num * b.num, a.den * b.den)
FracDiv(a, b) == Frac(a.num * b.den, a.den * b.num)
FracAdd(a, b) == Frac(a.num * b.den + b.num * a.den, a.den * b.den)

\* round(x, 1) for x >= 0: the nearest tenth; a value halfway between two
\* tenths goes to the even one
Round1(x) ==
  LET n == x.num * 10
      q == n \div x.den
      r == n % x.den
      t == IF 2 * r < x.den THEN q
           ELSE IF 2 * r > x.den THEN q + 1
           ELSE IF q % 2 = 0 THEN q ELSE q + 1
  IN  Frac(t, 10)

\* UNIT_CONVERSIONS: the factor to grams, None for the two serving units
UNIT_CONVERSIONS ==
  <<"g">> :> Some(FromInt(1)) @@ <<"g","r","a","m">> :> Some(FromInt(1)) @@ <<"g","r","a","m","s">> :> Some(FromInt(1)) @@
  <<"m","l">> :> Some(FromInt(1)) @@ <<"m","i","l","l","i","l","i","t","e","r">> :> Some(FromInt(1)) @@ <<"m","i","l","l","i","l","i","t","e","r","s">> :> Some(FromInt(1)) @@
  <<"s","e","r","v","i","n","g">> :> NULL @@ <<"s","e","r","v","i","n","g","s">> :> NULL @@
  <<"c","u","p">> :> Some(FromInt(240)) @@ <<"c","u","p","s">> :> Some(FromInt(240)) @@
  <<"t","b","s","p">> :> Some(FromInt(15)) @@ <<"t","a","b","l","e","s","p","o","o","n">> :> Some(FromInt(15)) @@ <<"t","a","b","l","e","s","p","o","o","n","s">> :> Some(FromInt(15)) @@
  <<"t","s","p">> :> Some(FromInt(5)) @@ <<"t","e","a","s","p","o","o","n">> :> Some(FromInt(5)) @@ <<"t","e","a","s","p","o","o","n","s">> :> Some(FromInt(5)) @@
  <<"o","z">> :> Some(Frac(2835, 100)) @@ <<"o","u","n","c","e">> :> Some(Frac(2835, 100)) @@ <<"o","u","n","c","e","s">> :> Some(Frac(2835, 100)) @@
  <<"l","b">> :> Some(Frac(45359, 100)) @@ <<"p","o","u","n","d">> :> Some(Frac(45359, 100)) @@ <<"p","o","u","n","d","s">> :> Some(Frac(45359, 100))

\* dict.get(key, default)
DictGet(d, key, default) == IF key \in DOMAIN d THEN d[key] ELSE default

\* normalize_serving_info(food, user_serving_size, user_serving_unit)
normalize_serving_info(food, user_serving_size, user_serving_unit) ==
  IF user_serving_size = NULL \/ user_serving_unit = NULL
  THEN [size |-> food.serving_size, unit |-> food.serving_unit]
  ELSE [size |-> user_serving_size, unit |-> Some(Strip(Lower(Val(user_serving_unit))))]

\* convert_to_base_units raises: serving_unit.lower() on None, or a product
\* with None
convert_to_base_units_Raises(serving_size, serving_unit, food) ==
  \/ serving_unit = NULL
  \/ serving_size = NULL
  \/ /\ Strip(Lower(Val(serving_unit))) \in {<<"s","e","r","v","i","n","g">>, <<"s","e","r","v","i","n","g","s">>}
     /\ food.serving_size = NULL

\* convert_to_base_units(serving_size, serving_unit, food), sizes as numbers
convert_to_base_units(serving_size, serving_unit, food) ==
  LET unit_lower == Strip(Lower(serving_unit))
  IN  IF unit_lower \in {<<"s","e","r","v","i","n","g">>, <<"s","e","r","v","i","n","g","s">>}
      THEN FracMul(FromInt(serving_size), FromInt(Val(food.serving_size)))
      ELSE FracMul(FromInt(serving_size),
                   Val(DictGet(UNIT_CONVERSIONS, unit_lower, Some(FromInt(1)))))

\* FoodBaseGrams with 1 g, not 100 g, for a base serving of 0 g
FoodBaseGrams_OneGram(food) ==
  LET food_base_grams ==
        IF Lower(Val(food.serving_unit)) \notin {<<"g">>, <<"g","r","a","m">>, <<"g","r","a","m","s">>}
        THEN convert_to_base_units(Val(food.serving_size), Val(food.serving_unit), food)
        ELSE FromInt(Val(food.serving_size))
  IN  IF food_base_grams.num = 0 THEN FromInt(1) ELSE food_base_grams

\* the grams of the food's base serving, lines 104-111
FoodBaseGrams(food) ==
  LET food_base_grams ==
        IF Lower(Val(food.serving_unit)) \notin {<<"g">>, <<"g","r","a","m">>, <<"g","r","a","m","s">>}
        THEN convert_to_base_units(Val(food.serving_size), Val(food.serving_unit), food)
        ELSE FromInt(Val(food.serving_size))
  IN  IF food_base_grams.num = 0 THEN FromInt(100) ELSE food_base_grams

\* calculate_nutrition_multiplier raises
calculate_nutrition_multiplier_Raises(food, user_serving_size, user_serving_unit, quantity) ==
  \/ convert_to_base_units_Raises(user_serving_size, user_serving_unit, food)
  \/ food.serving_unit = NULL
  \/ food.serving_size = NULL
  \/ quantity = NULL

\* calculate_nutrition_multiplier(food, user_serving_size, user_serving_unit, quantity)
calculate_nutrition_multiplier(food, user_serving_size, user_serving_unit, quantity) ==
  LET user_serving_grams == convert_to_base_units(user_serving_size, user_serving_unit, food)
  IN  FracMul(FracDiv(user_serving_grams, FoodBaseGrams(food)), FromInt(quantity))

\* "x or 0" of a nullable number
OrZero(x) == IF x = NULL THEN 0 ELSE Val(x)

\* Python truthiness of an Optional[dict]: None and {} are falsy.
TruthyMap(o) == o # NULL /\ DOMAIN Val(o) # {}

\* the micronutrient entries that are scaled: dicts holding 'amount'
ScaledEntries(food) ==
  IF ~TruthyMap(food.micronutrients) THEN {}
  ELSE { k \in DOMAIN Val(food.micronutrients) : "amount" \in DOMAIN Val(food.micronutrients)[k] }

Macros == {"protein", "carbs", "fat", "fiber", "sugar"}
MacroKey(f) ==
  CASE f = "protein" -> <<"p","r","o","t","e","i","n">> [] f = "carbs" -> <<"c","a","r","b","s">> [] f = "fat" -> <<"f","a","t">>
    [] f = "fiber" -> <<"f","i","b","e","r">> [] f = "sugar" -> <<"s","u","g","a","r">>

\* the try block of calculate_consumed_nutrition raises
calculate_consumed_nutrition_Raises(food, user_serving_size, user_serving_unit, quantity) ==
  LET s == normalize_serving_info(food, user_serving_size, user_serving_unit)
  IN  \/ calculate_nutrition_multiplier_Raises(food, s.size, s.unit, quantity)
      \/ \E k \in ScaledEntries(food) : Val(food.micronutrients)[k].amount = NULL

\* the snapshot of the except block
SafeDefaults(food) ==
  [calories_logged |-> FromInt(0),
   nutrients_logged |-> [k \in { MacroKey(f) : f \in Macros } |-> FromInt(0)],
   serving_size_used |-> food.serving_size,
   serving_unit_used |-> food.serving_unit,
   multiplier |-> FromInt(0)]

\* the variant of the except block that lets the exception out
calculate_consumed_nutrition_Reraise(food, user_serving_size, user_serving_unit, quantity) ==
  [raised |-> calculate_consumed_nutrition_Raises(food, user_serving_size, user_serving_unit, quantity),
   dict |-> SafeDefaults(food)]

\* calculate_consumed_nutrition(food, user_serving_size, user_serving_unit, quantity)
calculate_consumed_nutrition(food, user_serving_size, user_serving_unit, quantity) ==
  IF calculate_consumed_nutrition_Raises(food, user_serving_size, user_serving_unit, quantity)
  THEN [raised |-> FALSE, dict |-> SafeDefaults(food)]
  ELSE
    LET s == normalize_serving_info(food, user_serving_size, user_serving_unit)
        multiplier == calculate_nutrition_multiplier(food, Val(s.size), Val(s.unit), Val(quantity))
        macros == [k \in { MacroKey(f) : f \in Macros } |->
                     LET f == CHOOSE f \in Macros : MacroKey(f) = k
                     IN  Round1(FracMul(FromInt(OrZero(food[f])), multiplier))]
        micros == [k \in ScaledEntries(food) |->
                     Round1(FracMul(FromInt(Val(Val(food.micronutrients)[k].amount)), multiplier))]
    IN  [raised |-> FALSE,
         dict |-> [calories_logged |-> Round1(FracMul(FromInt(OrZero(food.calories)), multiplier)),
                   nutrients_logged |-> micros @@ macros,
                   serving_size_used |-> s.size,
                   serving_unit_used |-> s.unit,
                   multiplier |-> multiplier]]

\* ------------------------------------------------------------------------
\* State
\* ------------------------------------------------------------------------
VARIABLES
  foods,        \* the foods table: a sequence of rows, a row's id is its index
  schema,       \* which schema the table was created with
  now,          \* datetime.utcnow(), in seconds
  cacheCall,    \* what the last cache_food call was given and met
  ttlCheck,     \* the record is_cache_valid is applied to, and its answer
  safety_rules, \* PregnancySafetyService.safety_rules
  verdict,      \* the last safety verdict attached, and where
  runs,         \* the fetch_food_or_ingredient runs: position, locals, history
  resolved,     \* per query, the record a finished run persisted for it
  scaled,       \* the last calculate_consumed_nutrition call and its result
  food_logs,    \* the food_logs table: a sequence of rows, a row's id is its index
  logCall,      \* the last call of a logging or summary handler and its answer
  req,          \* the request _make_request is working on
  limiter,      \* one RateLimiter and one service: the clock, request_times, the lock, the callers
  classified,   \* one call of classify_and_search: its query, the answers of the searches, its result
  invalidation  \* one call of invalidate_cache: its criteria, the table before it

dbVars == <<foods, schema, now>>
pipelineVars == <<runs, resolved>>
scaleVars == <<scaled>>
logVars == <<food_logs, logCall>>
retryVars == <<req>>
limiterVars == <<limiter>>
classifyVars == <<classified>>
invalidateVars == <<invalidation>>
serviceVars == <<scaleVars, logVars, retryVars, limiterVars, classifyVars, invalidateVars>>

\* a service that is not called
ScaleIdle == scaled = NULL
LogIdle == food_logs = <<>> /\ logCall = NULL
RetryIdle == req = NULL
LimiterIdle == limiter = NULL
ClassifyIdle == classified = NULL
InvalidateIdle == invalidation = NULL
ServicesIdle == ScaleIdle /\ LogIdle /\ RetryIdle /\ LimiterIdle /\ ClassifyIdle /\ InvalidateIdle

\* ------------------------------------------------------------------------
\* The cache service called directly, one call after another
\* ------------------------------------------------------------------------
MaxCalls == 3
MaxTicks == 1
TickStep == 4 * Day

\* the Food objects handed to cache_food
GroceryEgg ==
  [EmptyFood EXCEPT !.name = Some(<<"e","g","g">>), !.spoonacular_id = Some(11),
                    !.source = Some("spoonacular"), !.serving_size = Some(100),
                    !.serving_unit = Some(<<"g">>), !.calories = Some(70), !.protein = Some(6),
                    !.ingredients = Some({<<"e","g","g">>}),
                    !.micronutrients = Some(<<"i","r","o","n">> :> [amount |-> 1, unit |-> <<"m","g">>, percent_daily_value |-> NULL]),
                    !.safety_status = Some("limited"),
                    !.safety_notes = Some(<<"moderation_due", <<<<"e","g","g">>>> >>)]
UsdaEgg ==
  [EmptyFood EXCEPT !.name = Some(<<"E","g","g">>), !.fdc_id = Some(31),
                    !.source = Some("usda"), !.serving_size = Some(100),
                    !.serving_unit = Some(<<"g">>), !.calories = Some(72),
                    !.category = Some(<<"d","a","i","r","y">>),
                    !.micronutrients = Some(<<"i","r","o","n">> :> [amount |-> 2, unit |-> <<"m","g">>, percent_daily_value |-> NULL]
                                              @@ <<"z","i","n","c">> :> [amount |-> 1, unit |-> <<"m","g">>, percent_daily_value |-> NULL]),
                    !.safety_status = Some("safe"),
                    !.safety_notes = Some(<<"generally_safe", <<>> >>),
                    !.usda_confidence = Some(1)]
BrandedEgg ==
  [EmptyFood EXCEPT !.name = Some(<<"e","g","g">>), !.brand = Some(<<"A","c","m","e">>),
                    !.source = Some("manual"), !.serving_size = Some(1),
                    !.serving_unit = Some(<<"s","e","r","v","i","n","g">>), !.calories = Some(80),
                    !.fiber = Some(0), !.allergens = Some({<<"e","g","g","s">>})]
SparseEgg ==
  [EmptyFood EXCEPT !.name = Some(<<"e","g","g">>), !.source = Some("local"),
                    !.ingredients = Some({<<"e","g","g">>,<<"s","a","l","t">>})]
Untitled ==
  [EmptyFood EXCEPT !.name = Some(<<>>), !.source = Some("manual"), !.serving_size = Some(1),
                    !.serving_unit = Some(<<"s","e","r","v","i","n","g">>), !.calories = Some(10)]
LinkedEgg ==
  [EmptyFood EXCEPT !.name = Some(<<"e","g","g"," ","s","a","l","a","d">>), !.spoonacular_id = Some(11),
                    !.fdc_id = Some(31), !.source = Some("spoonacular"),
                    !.serving_size = Some(100), !.serving_unit = Some(<<"g">>),
                    !.calories = Some(150), !.description = Some(<<"s","a","l","a","d">>)]

Payloads == {GroceryEgg, UsdaEgg, BrandedEgg, SparseEgg, Untitled, LinkedEgg}

NoCall == [n |-> 0, payload |-> NULL, merge |-> FALSE, prev |-> NULL, pre |-> <<>>,
           target |-> NULL, ret |-> NULL, raised |-> FALSE]

InitCache ==
  /\ foods = <<>>
  /\ schema \in Schemas
  /\ now = 0
  /\ cacheCall = NoCall
  /\ ttlCheck = NULL
  /\ verdict = NULL
  /\ safety_rules = RuleTable
  /\ runs = <<>>
  /\ resolved = <<>>
  /\ ServicesIdle

\* cache_food(db, food, merge_duplicates)
CacheFood ==
  /\ cacheCall.n < MaxCalls
  /\ \E food \in Payloads, merge_duplicates \in BOOLEAN, db_error \in BOOLEAN :
    \E out \in cache_food(schema, foods, food, merge_duplicates, now, db_error) :
      /\ foods' = out.table
      /\ cacheCall' = [n |-> cacheCall.n + 1,
                       payload |-> Some(food),
                       merge |-> merge_duplicates,
                       prev |-> IF cacheCall.raised \/ ~cacheCall.merge THEN NULL
                                ELSE cacheCall.payload,
                       pre |-> foods,
                       target |-> IF out.raised \/ Len(out.table) > Len(foods) THEN NULL ELSE out.ret,
                       ret |-> out.ret,
                       raised |-> out.raised]
      /\ UNCHANGED <<schema, now, ttlCheck, verdict, safety_rules, pipelineVars, serviceVars>>

\* time passes between two calls
CacheTick ==
  /\ now < MaxTicks * TickStep
  /\ now' = now + TickStep
  /\ UNCHANGED <<foods, schema, cacheCall, ttlCheck, verdict, safety_rules, pipelineVars, serviceVars>>

NextCache == CacheFood \/ CacheTick

vars == <<foods, schema, now, cacheCall, ttlCheck, safety_rules, verdict, runs, resolved, serviceVars>>

SpecCache == InitCache /\ [][NextCache]_vars

\* ------------------------------------------------------------------------
\* is_cache_valid applied to one record
\* ------------------------------------------------------------------------
\* the ages (now - updated_at) tried, around each TTL
Ages ==
  { -1, 0, 1, 3 * Day - 1, 3 * Day, 3 * Day + 1, 6 * Day + 23 * Hour, 7 * Day - 1, 7 * Day,
    7 * Day + 1, 30 * Day - 1, 30 * Day, 30 * Day + 1, 365 * Day }
Sources == {Some("spoonacular"), Some("usda"), Some("local"), Some("manual"), Some(""), NULL}
TtlNow == 400 * Day

InitTtl ==
  /\ foods = <<>>
  /\ schema = "orm"
  /\ cacheCall = NoCall
  /\ now = TtlNow
  /\ \E source \in Sources, updated_at \in {NULL} \cup { Some(TtlNow - a) : a \in Ages } :
       ttlCheck = [food |-> [EmptyFood EXCEPT !.source = source, !.updated_at = updated_at],
                   valid |-> NULL]
  /\ verdict = NULL
  /\ safety_rules = RuleTable
  /\ runs = <<>>
  /\ resolved = <<>>
  /\ ServicesIdle

\* is_cache_valid(food)
IsCacheValid ==
  /\ ttlCheck.valid = NULL
  /\ ttlCheck' = [ttlCheck EXCEPT !.valid = Some(is_cache_valid(ttlCheck.food, now))]
  /\ UNCHANGED <<foods, schema, now, cacheCall, verdict, safety_rules, pipelineVars, serviceVars>>

NextTtl == IsCacheValid

SpecTtl == InitTtl /\ [][NextTtl]_vars

\* ------------------------------------------------------------------------
\* The places that attach a safety verdict
\* ------------------------------------------------------------------------
\* the list of cache_usda_ingredients that marks a food safe by its name
\* (api/food/search/cache_manager.py)
safe_foods ==
  { <<"a","p","p","l","e">>, <<"b","a","n","a","n","a">>, <<"o","r","a","n","g","e">>,
    <<"s","t","r","a","w","b","e","r","r","y">>, <<"b","l","u","e","b","e","r","r","y">>, <<"c","a","r","r","o","t">>,
    <<"b","r","o","c","c","o","l","i">>, <<"s","p","i","n","a","c","h">>, <<"c","h","i","c","k","e","n">>,
    <<"s","a","l","m","o","n">>, <<"e","g","g">>, <<"y","o","g","u","r","t">>,
    <<"m","i","l","k">>, <<"c","h","e","e","s","e">>, <<"b","r","e","a","d">>,
    <<"r","i","c","e">>, <<"p","a","s","t","a">>, <<"o","a","t">> }

\* cache_usda_ingredients, the result built when the ingredient could not be
\* stored: the verdict comes from the list above, not from the rule table
uncached_usda_verdict(food_name) ==
  LET food_name_lower == Lower(food_name)
  IN  IF \E safe_food \in safe_foods : IsSubstr(safe_food, food_name_lower)
      THEN "safe" ELSE "limited"

\* USDASafetyService.check_ingredient_safety: get_safety_status mapped
\* through status_mapping with LIMITED as the default
usda_check_ingredient_safety(rules, ingredient_name) ==
  LET s == get_safety_status(rules, ingredient_name).status
  IN  IF s \in {"safe", "limited", "avoid"} THEN s ELSE "limited"

\* the names verdicts are asked for
SafetyNames ==
  { <<"x","y","z","z","y">>, <<"e","g","g">>, <<"B","a","n","a","n","a">>, <<"r","a","w"," ","e","g","g">>, <<"s","u","g","a","r"," ","f","r","e","e"," ","g","u","m">>, <<"k","a","l","e"," ","c","h","i","p","s">> }
\* the ingredient lists analysed by the pipeline
MaxIngredients == 2
IngredientLists == { l \in UNION { [1..n -> SafetyNames] : n \in 1..MaxIngredients } : TRUE }

InitSafety ==
  /\ foods = <<>>
  /\ schema = "orm"
  /\ cacheCall = NoCall
  /\ now = 0
  /\ ttlCheck = NULL
  /\ verdict = NULL
  /\ safety_rules \in LoadedRules
  /\ runs = <<>>
  /\ resolved = <<>>
  /\ ServicesIdle

\* get_safety_status(name): create_food_from_usda, create_ingredient_from_*
VerdictBySafetyStatus ==
  \E name \in SafetyNames :
    /\ verdict' = [path |-> "get_safety_status", names |-> <<name>>,
                   status |-> get_safety_status(safety_rules, name).status]
    /\ UNCHANGED <<foods, schema, now, cacheCall, ttlCheck, safety_rules, pipelineVars, serviceVars>>

\* USDASafetyService.check_ingredient_safety(name)
VerdictByUsdaService ==
  \E name \in SafetyNames :
    /\ verdict' = [path |-> "usda_safety_service", names |-> <<name>>,
                   status |-> usda_check_ingredient_safety(safety_rules, name)]
    /\ UNCHANGED <<foods, schema, now, cacheCall, ttlCheck, safety_rules, pipelineVars, serviceVars>>

\* _analyze_pregnancy_safety(ingredients, ...): the resolution pipeline and
\* cache_spoonacular_results
VerdictByPipeline ==
  \E ingredients \in IngredientLists :
    /\ verdict' = [path |-> "pipeline", names |-> ingredients,
                   status |-> _analyze_pregnancy_safety(safety_rules, ingredients).status]
    /\ UNCHANGED <<foods, schema, now, cacheCall, ttlCheck, safety_rules, pipelineVars, serviceVars>>

\* check_food_safety(ingredients)
VerdictByFoodSafety ==
  \E ingredients \in IngredientLists :
    /\ verdict' = [path |-> "check_food_safety", names |-> ingredients,
                   status |-> check_food_safety(safety_rules, ingredients).status]
    /\ UNCHANGED <<foods, schema, now, cacheCall, ttlCheck, safety_rules, pipelineVars, serviceVars>>

\* cache_usda_ingredients when storing the ingredient raised
VerdictByUncachedUsda ==
  \E name \in SafetyNames :
    /\ verdict' = [path |-> "cache_usda_ingredients", names |-> <<name>>,
                   status |-> uncached_usda_verdict(name)]
    /\ UNCHANGED <<foods, schema, now, cacheCall, ttlCheck, safety_rules, pipelineVars, serviceVars>>

NextSafety ==
  \/ VerdictBySafetyStatus
  \/ VerdictByUsdaService
  \/ VerdictByPipeline
  \/ VerdictByFoodSafety
  \/ VerdictByUncachedUsda

SpecSafety == InitSafety /\ [][NextSafety]_vars

\* ------------------------------------------------------------------------
\* fetch_food_or_ingredient, run concurrently by several requests
\* (services/unified_food_service.py).  A run is suspended at each await of
\* an external request; what lies between two awaits is one step.
\* ------------------------------------------------------------------------
MaxRuns == 2
MaxPipelineTicks == 1
ExpiryStep == 8 * Day
Runs == 1..MaxRuns

IdleRun ==
  [pc |-> "idle", query |-> NULL, is_product |-> NULL, data_type |-> "", food_id |-> NULL,
   fdc_id |-> NULL, ret |-> NULL, raised |-> FALSE,
   \* history of the run
   spoonacular_called |-> FALSE, usda_called |-> FALSE, first_source |-> "",
   unique_violation |-> FALSE, expect |-> NULL]

InitPipeline ==
  /\ foods = <<>>
  /\ schema \in Schemas
  /\ now = 0
  /\ cacheCall = NoCall
  /\ ttlCheck = NULL
  /\ verdict = NULL
  /\ safety_rules = RuleTable
  /\ runs = [r \in Runs |-> IdleRun]
  /\ resolved = [q \in Queries |-> NULL]
  /\ ServicesIdle

\* a request to Spoonacular is sent and awaited at pc
CallSpoonacular(run, pc) ==
  [run EXCEPT !.pc = pc, !.spoonacular_called = TRUE,
              !.first_source = IF @ = "" THEN "spoonacular" ELSE @]

\* "return await self._try_usda_fallback(query, db)": the fallback is
\* entered and suspended at its USDA search
EnterUsdaFallback(run) ==
  [run EXCEPT !.pc = "usda_search", !.usda_called = TRUE,
              !.first_source = IF @ = "" THEN "usda" ELSE @,
              !.data_type = "", !.food_id = NULL]

\* the run returns food (None or a row) to its caller
Return(run, food) ==
  [run EXCEPT !.pc = "done", !.ret = food, !.data_type = "", !.food_id = NULL, !.fdc_id = NULL]

\* the handler of _try_usda_fallback with "raise" in the place of "return None"
fallback_except_Reraise(run) ==
  [Return(run, NULL) EXCEPT !.raised = TRUE]

\* "except Exception as e: ... return None" of _try_usda_fallback
fallback_except(run) ==
  Return(run, NULL)

\* "except Exception as e: ... return await self._try_usda_fallback(query, db)"
\* of fetch_food_or_ingredient
fetch_except(run) ==
  EnterUsdaFallback(run)

\* classify_and_search after the answer to the search awaited at pc:
\* the next search to await, or the classification it returns
classify_and_search(pc, query, results) ==
  LET Result(type, found) == [pc |-> "return", type |-> type, results |-> found]
      Await(next) == [pc |-> next, type |-> "", results |-> <<>>]
  IN  IF pc = "products_first"
      THEN IF results # <<>> THEN Result("product", results) ELSE Await("ingredients_second")
      ELSE IF pc = "ingredients_second" THEN Result("ingredient", results)
      ELSE IF pc = "ingredients_first"
      THEN IF results # <<>> THEN Result("ingredient", results)
           ELSE IF _is_basic_ingredient(query) THEN Result("ingredient", <<>>)
           ELSE Await("products_second")
      ELSE Result("product", results)

\* _create_and_cache_food: its outcomes.  db_error is a failure of the
\* database unrelated to the data.
_create_and_cache_food(sch, table, nutrition_data, food_id, data_type, safety, ingredients, time, db_error) ==
  LET existing == FirstBy(table, "spoonacular_id", Some(food_id))
      built == IF data_type = "product" THEN from_spoonacular_product_data(nutrition_data)
               ELSE food_from_ingredient_data(nutrition_data, food_id)
      food == [built EXCEPT !.safety_status = Some(safety.status),
                            !.safety_notes = Some(safety.notes),
                            !.ingredients = Some(Range(ingredients)),
                            !.allergens = Some(_extract_allergens(ingredients))]
      None(violation) == [table |-> table, ret |-> NULL, violation |-> violation, inserted |-> FALSE]
  IN  IF db_error THEN {None(FALSE)}
      ELSE IF existing # {}
      THEN { [table |-> table, ret |-> Some(i), violation |-> FALSE, inserted |-> FALSE] : i \in existing }
      ELSE { IF ins.ok
             THEN [table |-> ins.table, ret |-> Some(Len(ins.table)), violation |-> FALSE, inserted |-> TRUE]
             ELSE None(~NotNullViolation(ins.row)) :
               ins \in { Insert(sch, table, food, time) } }

PipelineRest == <<schema, cacheCall, ttlCheck, verdict, safety_rules>>

\* the record a run that inserted it and returned it leaves as the
\* resolution of its query
Resolve(run, inserted) ==
  IF run.pc = "done" /\ inserted /\ run.ret # NULL
  THEN [resolved EXCEPT ![Val(run.query)] = run.ret]
  ELSE resolved

\* fetch_food_or_ingredient up to its first await: the cache lookup, then
\* the first request of classify_and_search
Start(r) ==
  /\ runs[r].pc = "idle"
  /\ r > 1 => runs[r - 1].pc # "idle"
  /\ \E query \in Queries, force_refresh \in BOOLEAN, db_error \in BOOLEAN :
       /\ db_error => ~force_refresh
       /\ LET known == resolved[query]
              run0 == [runs[r] EXCEPT
                         !.query = Some(query),
                         !.expect = IF /\ ~force_refresh
                                       /\ ~db_error
                                       /\ known # NULL
                                       /\ is_cache_valid(foods[Val(known)], now)
                                    THEN known ELSE NULL]
              is_product == _classify_as_product(query)
              search == CallSpoonacular([run0 EXCEPT !.is_product = Some(is_product)],
                                        IF is_product THEN "products_first" ELSE "ingredients_first")
              outcomes == IF force_refresh THEN {search}
                          ELSE IF db_error THEN {fetch_except(run0)}
                          ELSE { IF cached_food # NULL THEN Return(run0, cached_food) ELSE search :
                                   cached_food \in get_cached_food(foods, query, NULL, NULL, now) }
          IN  \E run \in outcomes :
                /\ runs' = [runs EXCEPT ![r] = run]
                /\ UNCHANGED <<foods, now, resolved, PipelineRest, serviceVars>>

\* the answer to a Spoonacular search arrives (an empty list when the
\* request failed: both search methods swallow their exceptions)
SpoonacularSearch(r) ==
  /\ runs[r].pc \in {"products_first", "ingredients_second", "ingredients_first", "products_second"}
  /\ \E answered \in BOOLEAN :
       LET run == runs[r]
           query == Val(run.query)
           results == IF ~answered THEN <<>>
                      ELSE IF run.pc \in {"products_first", "products_second"} THEN ProductCatalog(query)
                      ELSE IngredientCatalog(query)
           search_result == classify_and_search(run.pc, query, results)
           next == IF search_result.pc # "return" THEN CallSpoonacular(run, search_result.pc)
                   ELSE IF search_result.results = <<>> THEN EnterUsdaFallback(run)
                   ELSE CallSpoonacular([run EXCEPT !.data_type = search_result.type,
                                                    !.food_id = Some(search_result.results[1].id)],
                                        "nutrition")
       IN  /\ runs' = [runs EXCEPT ![r] = next]
           /\ UNCHANGED <<foods, now, resolved, PipelineRest, serviceVars>>

\* the answer of _get_nutrition_data arrives; with data, steps 5 to 7 of
\* fetch_food_or_ingredient run to the return or into the fallback.
\* fault names the stage that raises, if one does.
NutritionResponse(r) ==
  /\ runs[r].pc = "nutrition"
  /\ LET run == runs[r]
         food_id == Val(run.food_id)
         nutrition_data == SpoonacularData(food_id)
     IN  \E ingredients \in { _extract_ingredients(nutrition_data, run.data_type, Val(run.query)) } :
         \E safety \in { _analyze_pregnancy_safety(safety_rules, ingredients) } :
         \E has_data \in BOOLEAN, fault \in {"none", "safety", "create", "cache"} :
           /\ ~has_data => fault = "none"
           /\ LET created == _create_and_cache_food(schema, foods, nutrition_data, food_id,
                                                    run.data_type, safety, ingredients, now,
                                                    fault = "create")
                  Cached(c) ==
                    LET run1 == [run EXCEPT !.unique_violation = c.violation]
                    IN  IF c.ret = NULL
                        THEN { [table |-> c.table, run |-> Return(run1, NULL), inserted |-> FALSE] }
                        ELSE { [table |-> out.table, inserted |-> c.inserted,
                                run |-> IF out.raised THEN fetch_except(run1)
                                        ELSE Return(run1, out.ret)] :
                               out \in cache_food(schema, c.table, c.table[Val(c.ret)], TRUE, now,
                                                  fault = "cache") }
                  outcomes == IF ~has_data \/ fault = "safety"
                              THEN { [table |-> foods, run |-> fetch_except(run), inserted |-> FALSE] }
                              ELSE UNION { Cached(c) : c \in created }
              IN  \E o \in outcomes :
                    /\ foods' = o.table
                    /\ runs' = [runs EXCEPT ![r] = o.run]
                    /\ resolved' = Resolve(o.run, o.inserted)
                    /\ UNCHANGED <<now, PipelineRest, serviceVars>>

\* the answer of _search_usda_foods arrives (an empty list when the request
\* failed), then the lookup of the first result's fdcId in the table
UsdaSearchResponse(r) ==
  /\ runs[r].pc = "usda_search"
  /\ \E answered \in BOOLEAN, db_error \in BOOLEAN :
       /\ db_error => answered
       /\ LET run == runs[r]
              usda_foods == IF answered THEN UsdaCatalog(Val(run.query)) ELSE <<>>
              fdc_id == usda_foods[1].fdcId
              existing == FirstBy(foods, "fdc_id", fdc_id)
              outcomes == IF usda_foods = <<>> THEN {Return(run, NULL)}
                          ELSE IF ~TruthyInt(fdc_id) THEN {Return(run, NULL)}
                          ELSE IF db_error THEN {fallback_except(run)}
                          ELSE IF existing # {} THEN { Return(run, Some(i)) : i \in existing }
                          ELSE {[run EXCEPT !.pc = "usda_details", !.fdc_id = fdc_id]}
          IN  \E next \in outcomes :
                /\ runs' = [runs EXCEPT ![r] = next]
                /\ UNCHANGED <<foods, now, resolved, PipelineRest, serviceVars>>

\* the answer of _get_usda_food_details arrives; with data the Food is
\* built, analysed and inserted
UsdaDetailsResponse(r) ==
  /\ runs[r].pc = "usda_details"
  /\ LET run == runs[r]
         detailed_data == UsdaData(Val(run.fdc_id))
     IN  \E food \in { from_usda_data(detailed_data) } :
         \E ingredients \in { IF food.ingredients # NULL /\ Val(food.ingredients) # {}
                               THEN SplitComma(detailed_data.ingredients, <<>>)
                               ELSE <<Val(food.name)>> } :
         \E safety \in { _analyze_pregnancy_safety(safety_rules, ingredients) } :
         \E ins \in { Insert(schema, foods, [food EXCEPT !.safety_status = Some(safety.status),
                                                          !.safety_notes = Some(safety.notes)], now) } :
         \E has_data \in BOOLEAN, fault \in {"none", "safety"} :
           /\ ~has_data => fault = "none"
           /\ LET next == IF ~has_data THEN Return(run, NULL)
                          ELSE IF fault = "safety" THEN fallback_except(run)
                          ELSE IF ~ins.ok
                          THEN fallback_except([run EXCEPT !.unique_violation = ~NotNullViolation(ins.row)])
                          ELSE Return(run, Some(Len(ins.table)))
              IN  /\ foods' = IF has_data /\ fault = "none" THEN ins.table ELSE foods
                  /\ runs' = [runs EXCEPT ![r] = next]
                  /\ resolved' = Resolve(next, has_data /\ fault = "none" /\ ins.ok)
                  /\ UNCHANGED <<now, PipelineRest, serviceVars>>

\* time passes between requests, past the TTL of a Spoonacular record (the
\* seconds a request takes do not count against TTLs of days)
PipelineTick ==
  /\ \A r \in Runs : runs[r].pc \in {"idle", "done"}
  /\ now < MaxPipelineTicks * ExpiryStep
  /\ now' = now + ExpiryStep
  /\ UNCHANGED <<foods, runs, resolved, PipelineRest, serviceVars>>

NextPipeline ==
  \/ \E r \in Runs : Start(r)
  \/ \E r \in Runs : SpoonacularSearch(r)
  \/ \E r \in Runs : NutritionResponse(r)
  \/ \E r \in Runs : UsdaSearchResponse(r)
  \/ \E r \in Runs : UsdaDetailsResponse(r)
  \/ PipelineTick

SpecPipeline == InitPipeline /\ [][NextPipeline]_vars

\* time passes between requests, past the TTL of a USDA record
UsdaExpiryStep == 31 * Day
UsdaExpiryTick ==
  /\ \A r \in Runs : runs[r].pc \in {"idle", "done"}
  /\ now < MaxPipelineTicks * UsdaExpiryStep
  /\ now' = now + UsdaExpiryStep
  /\ UNCHANGED <<foods, runs, resolved, PipelineRest, serviceVars>>

NextExpiry ==
  \/ \E r \in Runs : Start(r)
  \/ \E r \in Runs : SpoonacularSearch(r)
  \/ \E r \in Runs : NutritionResponse(r)
  \/ \E r \in Runs : UsdaSearchResponse(r)
  \/ \E r \in Runs : UsdaDetailsResponse(r)
  \/ UsdaExpiryTick

SpecExpiry == InitPipeline /\ [][NextExpiry]_vars

\* the food pipeline at rest, for the specifications of the other services
CoreIdle ==
  /\ foods = <<>>
  /\ schema = "orm"
  /\ now = 0
  /\ cacheCall = NoCall
  /\ ttlCheck = NULL
  /\ verdict = NULL
  /\ safety_rules = RuleTable
  /\ runs = <<>>
  /\ resolved = <<>>

coreVars == <<foods, schema, now, cacheCall, ttlCheck, verdict, safety_rules, pipelineVars>>

\* ------------------------------------------------------------------------
\* The nutrition calculator called directly
\* ------------------------------------------------------------------------
\* a micronutrient entry; the amount is None when the source gave none
Entry(amount) == [amount |-> amount, unit |-> <<"m","g">>, percent_daily_value |-> NULL]

\* Food objects with the base servings the calculator distinguishes
BaseSizes == {Some(0), Some(1), Some(2), Some(100)}
BaseUnits == {Some(<<"g">>), Some(<<"c","u","p">>), Some(<<"o","z">>), Some(<<"s","e","r","v","i","n","g">>), Some(<<"m","e","d","i","u","m">>), NULL}
ScaleFood(size, unit) ==
  [EmptyFood EXCEPT !.id = Some(1), !.name = Some(<<"e","g","g">>), !.source = Some("manual"),
                    !.serving_size = size, !.serving_unit = unit,
                    !.calories = Some(70), !.protein = Some(6),
                    !.micronutrients = Some(<<"i","r","o","n">> :> Entry(Some(2)))]
Malformed == [ScaleFood(Some(100), Some(<<"g">>)) EXCEPT !.micronutrients = Some(<<"i","r","o","n">> :> Entry(NULL))]
ScaleFoods == { ScaleFood(size, unit) : size \in BaseSizes, unit \in BaseUnits } \cup {Malformed}

UserSizes == {NULL, Some(1), Some(3)}
UserUnits == {NULL, Some(<<"g">>), Some(<<"C","u","p"," ">>), Some(<<"o","z">>), Some(<<"t","b","s","p">>), Some(<<"s","e","r","v","i","n","g">>),
              Some(<<"S","e","r","v","i","n","g","s">>), Some(<<"s","l","i","c","e">>)}
Quantities == {Some(1), Some(2)}

InitScale ==
  /\ CoreIdle
  /\ LogIdle
  /\ RetryIdle
  /\ LimiterIdle
  /\ ClassifyIdle
  /\ InvalidateIdle
  /\ \E food \in ScaleFoods, user_serving_size \in UserSizes, user_serving_unit \in UserUnits,
        quantity \in Quantities :
       scaled = [food |-> food, user_serving_size |-> user_serving_size,
                 user_serving_unit |-> user_serving_unit, quantity |-> quantity,
                 out |-> NULL]

\* calculate_consumed_nutrition(food, user_serving_size, user_serving_unit, quantity)
CalculateConsumedNutrition ==
  /\ scaled.out = NULL
  /\ scaled' = [scaled EXCEPT !.out = Some(calculate_consumed_nutrition(
                   scaled.food, scaled.user_serving_size, scaled.user_serving_unit,
                   scaled.quantity))]
  /\ UNCHANGED <<coreVars, logVars, retryVars, limiterVars, classifyVars, invalidateVars>>

NextScale == CalculateConsumedNutrition

SpecScale == InitScale /\ [][NextScale]_vars

\* ------------------------------------------------------------------------
\* Food logs and summaries (api/food/logging.py, api/food/nutrition.py)
\* ------------------------------------------------------------------------
MaxLogs == 2

Users == {1, 2}
Days == {0, 1}
LogSizes == {1}
UpdateSizes == {NULL, Some(2)}
MissingFoodId == 9

\* the foods in the table: one with a base serving of 1 "medium", one whose
\* micronutrient entry has no amount
Banana ==
  [EmptyFood EXCEPT !.name = Some(<<"b","a","n","a","n","a">>), !.source = Some("usda"), !.fdc_id = Some(41),
                    !.serving_size = Some(1), !.serving_unit = Some(<<"m","e","d","i","u","m">>),
                    !.calories = Some(105), !.protein = Some(1),
                    !.micronutrients = Some(<<"i","r","o","n">> :> Entry(Some(2)))]
Smoothie ==
  [EmptyFood EXCEPT !.name = Some(<<"s","m","o","o","t","h","i","e">>), !.source = Some("manual"),
                    !.serving_size = Some(100), !.serving_unit = Some(<<"g">>),
                    !.calories = Some(60), !.fiber = Some(1),
                    !.micronutrients = Some(<<"i","r","o","n">> :> Entry(NULL))]
\* the record a later resolution of the banana brings
Refreshed ==
  [EmptyFood EXCEPT !.name = Some(<<"b","a","n","a","n","a">>), !.source = Some("spoonacular"),
                    !.spoonacular_id = Some(51),
                    !.serving_size = Some(1), !.serving_unit = Some(<<"m","e","d","i","u","m">>),
                    !.calories = Some(110), !.fiber = Some(3),
                    !.micronutrients = Some(<<"i","r","o","n">> :> Entry(Some(3)))]

NoLogCall ==
  [op |-> "none", user |-> 0, day |-> 0, log_id |-> 0, food_id |-> 0, serving_size |-> 0,
   db_error |-> FALSE, status |-> 0, nutrition |-> NULL, summary |-> NULL]

InitLog ==
  /\ schema = "orm"
  /\ foods = Insert(schema, Insert(schema, <<>>, Banana, 0).table, Smoothie, 0).table
  /\ now = 0
  /\ cacheCall = NoCall
  /\ ttlCheck = NULL
  /\ verdict = NULL
  /\ safety_rules = RuleTable
  /\ runs = <<>>
  /\ resolved = <<>>
  /\ ScaleIdle
  /\ RetryIdle
  /\ LimiterIdle
  /\ ClassifyIdle
  /\ InvalidateIdle
  /\ food_logs = <<>>
  /\ logCall = NoLogCall

LogRest == <<schema, cacheCall, ttlCheck, verdict, safety_rules, pipelineVars, scaleVars, retryVars, limiterVars, classifyVars, invalidateVars>>

\* db.query(Food).filter(Food.id == food_id).first()
FoodById(table, food_id) == IF food_id \in DOMAIN table THEN Some(table[food_id]) ELSE NULL

\* log_food(log_in, current_user): the food is looked up by its id; without
\* it (and without a food named like "orange", line 160) the handler answers
\* 404.  db_error is a failure of flush or commit.
LogFood ==
  /\ Len(food_logs) < MaxLogs
  /\ \E user \in Users, food_id \in DOMAIN foods \cup {MissingFoodId}, serving_size \in LogSizes,
        day \in Days, db_error \in BOOLEAN :
       LET found == FoodById(foods, food_id)
           call == [NoLogCall EXCEPT !.op = "log_food", !.food_id = food_id,
                                     !.serving_size = serving_size, !.db_error = db_error]
       IN  \* users and days are interchangeable: the first log is user 1's on day 0
           /\ food_logs = <<>> => user = 1 /\ day = 0
           /\ IF found = NULL
              THEN /\ logCall' = [call EXCEPT !.status = 404]
                   /\ UNCHANGED food_logs
              ELSE \E nutrition_data \in { calculate_consumed_nutrition(
                        Val(found), Some(serving_size), Some(<<"s","e","r","v","i","n","g">>), Some(1)) } :
                     IF nutrition_data.raised \/ db_error
                     THEN /\ logCall' = [call EXCEPT !.status = 500]
                          /\ UNCHANGED food_logs
                     ELSE /\ food_logs' = Append(food_logs,
                               [id |-> Len(food_logs) + 1,
                                user_id |-> user,
                                food_id |-> food_id,
                                serving_size |-> serving_size,
                                serving_unit |-> <<"s","e","r","v","i","n","g">>,
                                quantity |-> 1,
                                consumed_at |-> day,
                                deleted_at |-> NULL,
                                calories_logged |-> Some(nutrition_data.dict.calories_logged),
                                nutrients_logged |-> Some(nutrition_data.dict.nutrients_logged),
                                created_at |-> now])
                          /\ logCall' = [call EXCEPT !.status = 201,
                                                     !.log_id = Len(food_logs) + 1,
                                                     !.nutrition = Some(nutrition_data.dict)]
  /\ UNCHANGED <<foods, now, LogRest>>

\* the query of a log by id and owner, deleted or not
LiveLog_WithDeleted(logs, log_id, user) ==
  { i \in DOMAIN logs : logs[i].id = log_id /\ logs[i].user_id = user }

\* the query of a log by id, owner and deleted_at IS NULL
LiveLog(logs, log_id, user) ==
  { i \in DOMAIN logs : logs[i].id = log_id /\ logs[i].user_id = user /\ logs[i].deleted_at = NULL }

\* delete_food_log(log_id, current_user)
DeleteFoodLog ==
  \E user \in Users, log_id \in 1..MaxLogs :
    LET call == [NoLogCall EXCEPT !.op = "delete_food_log", !.log_id = log_id]
    IN  IF LiveLog(food_logs, log_id, user) = {}
        THEN /\ logCall' = [call EXCEPT !.status = 404]
             /\ UNCHANGED <<foods, now, food_logs, LogRest>>
        ELSE /\ food_logs' = [food_logs EXCEPT ![log_id].deleted_at = Some(now)]
             /\ logCall' = [call EXCEPT !.status = 204]
             /\ UNCHANGED <<foods, now, LogRest>>

\* get_food_log(log_id, current_user): 404 without a live log of the user or
\* without its food, else the formatted log
GetFoodLog ==
  /\ \E user \in Users, log_id \in 1..MaxLogs :
       LET call == [NoLogCall EXCEPT !.op = "get_food_log", !.log_id = log_id, !.user = user]
           found == LiveLog(food_logs, log_id, user)
       IN  logCall' = IF found = {} \/ \E i \in found : FoodById(foods, food_logs[i].food_id) = NULL
                      THEN [call EXCEPT !.status = 404]
                      ELSE [call EXCEPT !.status = 200]
  /\ UNCHANGED <<foods, now, food_logs, LogRest>>

\* update_food_log(log_id, log_in, current_user): the fields that were set
\* in the request are assigned and committed.  The handler returns the
\* FoodLog itself for the response model FoodLogResponse, whose required
\* field "food" a FoodLog does not have (the relationship is commented
\* out), so the response fails its validation after the commit.
UpdateFoodLog ==
  \E user \in Users, log_id \in 1..MaxLogs, serving_size \in UpdateSizes :
    LET call == [NoLogCall EXCEPT !.op = "update_food_log", !.log_id = log_id, !.user = user]
    IN  IF LiveLog(food_logs, log_id, user) = {}
        THEN /\ logCall' = [call EXCEPT !.status = 404]
             /\ UNCHANGED <<foods, now, food_logs, LogRest>>
        ELSE /\ food_logs' = IF serving_size = NULL THEN food_logs
                             ELSE [food_logs EXCEPT ![log_id].serving_size = Val(serving_size)]
             /\ logCall' = [call EXCEPT !.status = 500]
             /\ UNCHANGED <<foods, now, LogRest>>

\* a later resolution of a food is merged into its record by cache_food
MergeFood ==
  /\ \E out \in cache_food(schema, foods, Refreshed, TRUE, now, FALSE) :
       /\ ~out.raised
       /\ foods' = out.table
  /\ logCall' = [NoLogCall EXCEPT !.op = "cache_food"]
  /\ UNCHANGED <<now, food_logs, LogRest>>

\* the logs the three summary queries select: the user's, not soft-deleted,
\* joined to their food, consumed on one of the days
SummaryLogs(table, logs, user, days) ==
  { i \in DOMAIN logs : /\ logs[i].user_id = user
                        /\ logs[i].deleted_at = NULL
                        /\ logs[i].food_id \in DOMAIN table
                        /\ logs[i].consumed_at \in days }

\* DailyNutrition(date=...): every total 0.0
DailyNutrition ==
  [total_calories |-> FromInt(0), protein_g |-> FromInt(0), carbs_g |-> FromInt(0),
   fat_g |-> FromInt(0), fiber_g |-> FromInt(0), sugar_g |-> FromInt(0),
   sodium_mg |-> FromInt(0), calcium_mg |-> FromInt(0), iron_mg |-> FromInt(0),
   vitamin_a_mcg |-> FromInt(0), vitamin_c_mg |-> FromInt(0), vitamin_d_mcg |-> FromInt(0),
   folate_mcg |-> FromInt(0)]

\* the key of nutrients_logged that get_nutrition_summary adds to a total
SummaryKey(field) ==
  CASE field = "protein_g" -> <<"p","r","o","t","e","i","n">> [] field = "carbs_g" -> <<"c","a","r","b","s">>
    [] field = "fat_g" -> <<"f","a","t">> [] field = "fiber_g" -> <<"f","i","b","e","r">>
    [] field = "sugar_g" -> <<"s","u","g","a","r">> [] field = "sodium_mg" -> <<"s","o","d","i","u","m">>
    [] field = "calcium_mg" -> <<"c","a","l","c","i","u","m">> [] field = "iron_mg" -> <<"i","r","o","n">>
    [] field = "vitamin_a_mcg" -> <<"v","i","t","a","m","i","n","_","a">> [] field = "vitamin_c_mg" -> <<"v","i","t","a","m","i","n","_","c">>
    [] field = "vitamin_d_mcg" -> <<"v","i","t","a","m","i","n","_","d">> [] field = "folate_mcg" -> <<"f","o","l","a","t","e">>

\* one pass of the loop of get_nutrition_summary
AddLogged(nutrition, log) ==
  [field \in DOMAIN nutrition |->
     IF field = "total_calories"
     THEN FracAdd(nutrition[field], IF log.calories_logged = NULL THEN FromInt(0)
                                    ELSE Val(log.calories_logged))
     ELSE IF TruthyMap(log.nutrients_logged)
     THEN FracAdd(nutrition[field],
                  DictGet(Val(log.nutrients_logged), SummaryKey(field), FromInt(0)))
     ELSE nutrition[field]]

RECURSIVE SumLogged(_, _, _)
SumLogged(nutrition, logs, rows) ==
  IF rows = {} THEN nutrition
  ELSE LET i == CHOOSE i \in rows : \A j \in rows : i <= j
       IN  SumLogged(AddLogged(nutrition, logs[i]), logs, rows \ {i})

\* get_nutrition_summary(date, current_user)
GetNutritionSummary ==
  /\ \E user \in Users, day \in Days :
       logCall' = [NoLogCall EXCEPT !.op = "get_nutrition_summary", !.user = user, !.day = day,
                                    !.status = 200,
                                    !.summary = Some(SumLogged(DailyNutrition, food_logs,
                                                  SummaryLogs(foods, food_logs, user, {day})))]
  /\ UNCHANGED <<foods, now, food_logs, LogRest>>

\* get_daily_summary(date, current_user): the filter is built with db.func,
\* and a Session has no attribute func, so the handler raises AttributeError
\* before the query runs
GetDailySummary ==
  /\ \E user \in Users, day \in Days :
       logCall' = [NoLogCall EXCEPT !.op = "get_daily_summary", !.user = user, !.day = day,
                                    !.status = 500]
  /\ UNCHANGED <<foods, now, food_logs, LogRest>>

\* get_weekly_summary(start, current_user): timedelta is not imported in
\* logging.py, so the handler raises NameError when it computes the dates
GetWeeklySummary ==
  /\ \E user \in Users, day \in Days :
       logCall' = [NoLogCall EXCEPT !.op = "get_weekly_summary", !.user = user, !.day = day,
                                    !.status = 500]
  /\ UNCHANGED <<foods, now, food_logs, LogRest>>

NextLog ==
  \/ LogFood
  \/ DeleteFoodLog
  \/ MergeFood
  \/ GetNutritionSummary
  \/ GetDailySummary
  \/ GetWeeklySummary

SpecLog == InitLog /\ [][NextLog]_vars

\* the requests on single logs: create, read, update, delete
NextLogEdit ==
  \/ LogFood
  \/ GetFoodLog
  \/ UpdateFoodLog
  \/ DeleteFoodLog

SpecLogEdit == InitLog /\ [][NextLogEdit]_vars

\* ------------------------------------------------------------------------
\* RetryHandler and APIClientWithLimiting (services/rate_limiter.py)
\* ------------------------------------------------------------------------
max_retries == 1

\* what one call of _request meets: wait_for_slot timing out, the transport
\* failing, an exception of another kind, or a response with a status
Statuses == {200, 400, 404, 429, 500, 503}
NoResponse(kind) == [kind |-> kind, status_code |-> 0]
ResponseOf(status_code) == [kind |-> "response", status_code |-> status_code]
Outcomes ==
  { NoResponse(kind) : kind \in {"rate_limit_timeout", "transport_error", "other_exception"} }
    \cup { ResponseOf(s) : s \in Statuses }

\* the exception _request raises on the outcome, "" when it returns the
\* response: RequestError, HTTPStatusError for 429 and from raise_for_status
Raised(outcome) ==
  IF outcome.kind \in {"rate_limit_timeout", "transport_error"} THEN "RequestError"
  ELSE IF outcome.kind = "other_exception" THEN "Exception"
  ELSE IF outcome.status_code = 429 THEN "HTTPStatusError"
  ELSE IF outcome.status_code >= 400 THEN "HTTPStatusError"
  ELSE ""

retry_on == {"HTTPStatusError", "RequestError"}

\* max_retries = max_retries or self.max_retries
MaxPassed == 2
PassedRetries == {NULL} \cup { Some(n) : n \in 0..MaxPassed }
effective_max_retries(passed) == IF TruthyInt(passed) THEN Val(passed) ELSE max_retries

Methods == {"GET", "POST"}

InitRetry ==
  /\ CoreIdle
  /\ ScaleIdle
  /\ LogIdle
  /\ LimiterIdle
  /\ ClassifyIdle
  /\ InvalidateIdle
  /\ req = [pc |-> "idle", method |-> "GET", attempt |-> 0, sent |-> 0, log |-> <<>>,
            result |-> "", passed |-> NULL, max_retries |-> max_retries]

RetryRest == <<coreVars, scaleVars, logVars, limiterVars, classifyVars, invalidateVars>>

\* retry_with_backoff(_request, max_retries=passed) enters its loop
EnterRetry(method, passed) ==
  [pc |-> "wait_for_slot", method |-> method, attempt |-> 0, sent |-> 0,
   log |-> <<>>, result |-> "", passed |-> passed,
   max_retries |-> effective_max_retries(passed)]

\* _make_request(method, url): retry_with_backoff(_request)
MakeRequest ==
  /\ req.pc \in {"idle", "done"}
  /\ \E method \in Methods : req' = EnterRetry(method, NULL)
  /\ UNCHANGED RetryRest

\* retry_with_backoff called with or without a max_retries of the caller
RetryWithBackoff ==
  /\ req.pc \in {"idle", "done"}
  /\ \E passed \in PassedRetries : req' = EnterRetry("GET", passed)
  /\ UNCHANGED RetryRest

\* the except clauses of retry_with_backoff for an exception of _request
retry_except(r, exception) ==
  IF exception \in retry_on
  THEN IF r.attempt = r.max_retries
       THEN [r EXCEPT !.pc = "done", !.result = exception]
       ELSE [r EXCEPT !.pc = "backoff"]
  ELSE [r EXCEPT !.pc = "done", !.result = exception]

\* wait_for_slot answers
SlotAnswer ==
  /\ req.pc = "wait_for_slot"
  /\ \E slot \in BOOLEAN :
       IF slot
       THEN req' = [req EXCEPT !.pc = "request"]
       ELSE req' = retry_except([req EXCEPT !.log = Append(@, NoResponse("rate_limit_timeout"))],
                                Raised(NoResponse("rate_limit_timeout")))
  /\ UNCHANGED RetryRest

\* client.request answers or fails
Response ==
  /\ req.pc = "request"
  /\ \E outcome \in Outcomes \ {NoResponse("rate_limit_timeout")} :
       LET r == [req EXCEPT !.sent = @ + 1, !.log = Append(@, outcome)]
       IN  IF Raised(outcome) = ""
           THEN req' = [r EXCEPT !.pc = "done", !.result = "response"]
           ELSE req' = retry_except(r, Raised(outcome))
  /\ UNCHANGED RetryRest

\* asyncio.sleep(total_delay) is over: the next attempt
BackoffOver ==
  /\ req.pc = "backoff"
  /\ req' = [req EXCEPT !.pc = "wait_for_slot", !.attempt = @ + 1]
  /\ UNCHANGED RetryRest

NextRetry == MakeRequest \/ SlotAnswer \/ Response \/ BackoffOver

SpecRetry == InitRetry /\ [][NextRetry]_vars

NextBackoff == RetryWithBackoff \/ SlotAnswer \/ Response \/ BackoffOver

SpecBackoff == InitRetry /\ [][NextBackoff]_vars

\* ------------------------------------------------------------------------
\* RateLimiter (services/rate_limiter.py): one service, concurrent callers
\* ------------------------------------------------------------------------
\* The limits of the source (150, 1000 and 60 requests) are out of reach of
\* a model; the service of the model has a small one.
Limit == 1
MaxCallers == 2
MaxTasks == 3
MaxClock == 70
MaxWaitClock == 340

Window == 60
max_wait == 300
MaxSleep == 10
MinSleep == 1

Callers == DOMAIN limiter.callers

\* "waited" is what a call that returned False took, "granted" the times of
\* the slots granted in the last 60 seconds
IdleCaller == [pc |-> "idle", kind |-> "none", start_time |-> 0, wake |-> 0, result |-> FALSE,
               waited |-> 0]

\* the coroutines are stopped at their awaits: "lock_acquire" and "lock_poll"
\* wait for the lock at lines 34 and 64, "has_lock_acquire" and
\* "has_lock_poll" were given it and are ready to run, "sleeping" is inside
\* asyncio.sleep at line 68 or 70
NewLimiter(n) ==
  [clock |-> 0, request_times |-> <<>>, holder |-> 0, waiters |-> <<>>,
   callers |-> [c \in 1..n |-> IdleCaller], granted |-> <<>>]

InitLimiter ==
  /\ CoreIdle
  /\ ScaleIdle
  /\ LogIdle
  /\ RetryIdle
  /\ ClassifyIdle
  /\ InvalidateIdle
  /\ limiter = NewLimiter(MaxCallers)

LimiterRest == <<coreVars, scaleVars, logVars, retryVars, classifyVars, invalidateVars>>

Max(a, b) == IF a > b THEN a ELSE b

\* the popleft loop of acquire
RECURSIVE DropOld(_, _)
DropOld(times, window_start) ==
  IF times # <<>> /\ Head(times) < window_start THEN DropOld(Tail(times), window_start)
  ELSE times

\* the body of acquire with "<=" in the place of "<" in the test of the limit
acquire_body_OffByOne(s, c) ==
  LET times == DropOld(s.request_times, s.clock - Window)
  IN  IF Len(times) <= Limit
      THEN [s |-> [s EXCEPT !.request_times = Append(times, s.clock),
                            !.granted = Append(@, s.clock)],
            ok |-> TRUE]
      ELSE [s |-> [s EXCEPT !.request_times = times], ok |-> FALSE]

\* the body of acquire, run by the caller c under the lock
acquire_body(s, c) ==
  LET times == DropOld(s.request_times, s.clock - Window)
  IN  IF Len(times) < Limit
      THEN [s |-> [s EXCEPT !.request_times = Append(times, s.clock),
                            !.granted = Append(@, s.clock)],
            ok |-> TRUE]
      ELSE [s |-> [s EXCEPT !.request_times = times], ok |-> FALSE]

\* asyncio.Lock: acquire succeeds at once when the lock is free and nobody
\* waits, otherwise the caller joins the waiters; release hands the lock to
\* the first waiter
LockFree(s) == s.holder = 0 /\ s.waiters = <<>>

Enqueue(s, c, pc) ==
  [s EXCEPT !.waiters = Append(@, c), !.callers[c].pc = pc]

Release(s) ==
  IF s.waiters = <<>> THEN [s EXCEPT !.holder = 0]
  ELSE LET w == Head(s.waiters)
       IN  [s EXCEPT !.holder = w, !.waiters = Tail(@),
                     !.callers[w].pc = IF @ = "lock_acquire" THEN "has_lock_acquire"
                                       ELSE "has_lock_poll"]

Finish(s, c, result) ==
  [s EXCEPT !.callers[c] = [IdleCaller EXCEPT !.pc = "done", !.kind = s.callers[c].kind,
                                              !.result = result,
                                              !.waited = IF result THEN 0
                                                         ELSE s.clock - s.callers[c].start_time]]

\* lines 64-70: the sleep is taken inside "async with self.locks[service]"
SleepUnderLock(s, c) ==
  LET wait_time == IF s.request_times # <<>>
                   THEN Min(Max(MinSleep, Head(s.request_times) + Window - s.clock), MaxSleep)
                   ELSE MinSleep
  IN  [s EXCEPT !.holder = c, !.callers[c].pc = "sleeping", !.callers[c].wake = s.clock + wait_time]

EnterPoll(s, c) ==
  IF LockFree(s) THEN SleepUnderLock(s, c) ELSE Enqueue(s, c, "lock_poll")

\* what follows the return of acquire in its caller
AfterAcquire(s, c, ok) ==
  IF s.callers[c].kind = "acquire" \/ ok THEN Finish(s, c, ok)
  ELSE EnterPoll(s, c)

\* acquire(service) from "async with" on: its body and release when the lock
\* is free, the wait for the lock otherwise
EnterAcquire(s, c) ==
  IF LockFree(s)
  THEN LET out == acquire_body(s, c) IN AfterAcquire(out.s, c, out.ok)
  ELSE Enqueue(s, c, "lock_acquire")

\* the head of the loop of wait_for_slot
LoopHead(s, c) ==
  IF s.clock - s.callers[c].start_time < max_wait THEN EnterAcquire(s, c)
  ELSE Finish(s, c, FALSE)

\* a coroutine is ready to run
Ready(s, c) ==
  \/ s.callers[c].pc \in {"has_lock_acquire", "has_lock_poll"}
  \/ s.callers[c].pc = "sleeping" /\ s.callers[c].wake <= s.clock

\* acquire(service) or wait_for_slot(service) is called, by a caller that has
\* no call under way; the callers are interchangeable, so their first calls
\* come in the order of their numbers
Call(c) ==
  /\ limiter.callers[c].pc \in {"idle", "done"}
  /\ \A d \in Callers : d < c => limiter.callers[d].pc # "idle"
  /\ \E kind \in {"acquire", "wait_for_slot"} :
       LET s == [limiter EXCEPT !.callers[c] = [IdleCaller EXCEPT !.kind = kind,
                                                                 !.start_time = limiter.clock]]
       IN  limiter' = IF kind = "acquire" THEN EnterAcquire(s, c) ELSE LoopHead(s, c)
  /\ UNCHANGED LimiterRest

\* the caller that was given the lock runs: the body of acquire, or the sleep
\* of the poll
RunWithLock(c) ==
  /\ limiter.callers[c].pc \in {"has_lock_acquire", "has_lock_poll"}
  /\ limiter' = IF limiter.callers[c].pc = "has_lock_acquire"
                THEN LET out == acquire_body(limiter, c)
                     IN  AfterAcquire(Release(out.s), c, out.ok)
                ELSE SleepUnderLock(limiter, c)
  /\ UNCHANGED LimiterRest

\* asyncio.sleep returns: the lock is released and the loop goes on
Wake(c) ==
  /\ limiter.callers[c].pc = "sleeping"
  /\ limiter.callers[c].wake <= limiter.clock
  /\ limiter' = LoopHead(Release(limiter), c)
  /\ UNCHANGED LimiterRest

\* time passes while no coroutine is ready, up to the next wake-up
TickTo(horizon) ==
  /\ \A c \in Callers : ~Ready(limiter, c)
  /\ \E c \in Callers : limiter.callers[c].pc = "sleeping"
  /\ LET next == CHOOSE t \in { limiter.callers[c].wake : c \in { d \in Callers : limiter.callers[d].pc = "sleeping" } } :
                   \A c \in Callers : limiter.callers[c].pc = "sleeping" => t <= limiter.callers[c].wake
     IN  /\ next <= horizon
         /\ limiter' = [limiter EXCEPT !.clock = next,
                                        !.granted = SelectSeq(@, LAMBDA t : t > next - Window)]
  /\ UNCHANGED LimiterRest

Tick == TickTo(MaxClock)

NextLimiter ==
  \/ \E c \in 1..MaxCallers : Call(c)
  \/ \E c \in 1..MaxCallers : RunWithLock(c)
  \/ \E c \in 1..MaxCallers : Wake(c)
  \/ Tick

SpecLimiter == InitLimiter /\ [][NextLimiter]_vars

\* the tasks of a busy server: every task calls wait_for_slot for its next
\* request as soon as the last call has returned, as _request does for each
\* request of a search
InitWait ==
  /\ CoreIdle
  /\ ScaleIdle
  /\ LogIdle
  /\ RetryIdle
  /\ ClassifyIdle
  /\ InvalidateIdle
  /\ limiter = NewLimiter(MaxTasks)

CallWait(c) ==
  /\ limiter.callers[c].pc \in {"idle", "done"}
  /\ LET s == [limiter EXCEPT !.callers[c] = [IdleCaller EXCEPT !.kind = "wait_for_slot",
                                                               !.start_time = limiter.clock]]
     IN  limiter' = LoopHead(s, c)
  /\ UNCHANGED LimiterRest

TickWait ==
  /\ \A c \in Callers : limiter.callers[c].pc \notin {"idle", "done"}
  /\ TickTo(MaxWaitClock)

NextWait ==
  \/ \E c \in 1..MaxTasks : CallWait(c)
  \/ \E c \in 1..MaxTasks : RunWithLock(c)
  \/ \E c \in 1..MaxTasks : Wake(c)
  \/ TickWait

SpecWait == InitWait /\ [][NextWait]_vars

\* ------------------------------------------------------------------------
\* classify_and_search on the queries of the allowlist
\* ------------------------------------------------------------------------
\* the entries of basic_ingredients and the variants that
\* _is_basic_ingredient accepts with them: the entry with an "s", the entry
\* without its last "s"
AllowlistQueries ==
  basic_ingredients
    \cup { ingredient \o <<"s">> : ingredient \in basic_ingredients }
    \cup { SubSeq(ingredient, 1, Len(ingredient) - 1) :
             ingredient \in { i \in basic_ingredients : i[Len(i)] = "s" } }

\* what search_grocery_products and search_ingredients answer: nothing, or
\* a list of hits
SearchAnswers == { <<>>, <<[id |-> 1]>> }

InitClassify ==
  /\ CoreIdle
  /\ ScaleIdle
  /\ LogIdle
  /\ RetryIdle
  /\ LimiterIdle
  /\ InvalidateIdle
  /\ \E query \in AllowlistQueries, products \in SearchAnswers, ingredients \in SearchAnswers :
       classified = [query |-> query, products |-> products, ingredients |-> ingredients,
                     pc |-> "idle", type |-> "", results |-> <<>>]

ClassifyRest == <<coreVars, scaleVars, logVars, retryVars, limiterVars, invalidateVars>>

\* classify_and_search up to its first search
ClassifyAndSearch ==
  /\ classified.pc = "idle"
  /\ classified' = [classified EXCEPT
                      !.pc = IF _classify_as_product(classified.query) THEN "products_first"
                             ELSE "ingredients_first"]
  /\ UNCHANGED ClassifyRest

\* the awaited search answers and classify_and_search goes on
SearchAnswered ==
  /\ classified.pc \in {"products_first", "ingredients_first", "products_second", "ingredients_second"}
  /\ LET results == IF classified.pc \in {"products_first", "products_second"}
                    THEN classified.products ELSE classified.ingredients
         out == classify_and_search(classified.pc, classified.query, results)
     IN  classified' = [classified EXCEPT !.pc = out.pc, !.type = out.type, !.results = out.results]
  /\ UNCHANGED ClassifyRest

NextClassify ==
  \/ ClassifyAndSearch
  \/ SearchAnswered

SpecClassify == InitClassify /\ [][NextClassify]_vars

\* ------------------------------------------------------------------------
\* invalidate_cache (services/cache_service.py)
\* ------------------------------------------------------------------------
ForcedAge == 365 * Day

\* invalidate_cache with "or" between the criteria in the place of the
\* chained filters
invalidate_cache_AnyCriterion(table, food_id, source, older_than_hours, time, db_error) ==
  LET by_id(i) == food_id # NULL /\ table[i].id = food_id
      by_source(i) == source # NULL /\ Val(source) # "" /\ table[i].source = source
      by_age(i) == /\ TruthyInt(older_than_hours)
                   /\ table[i].updated_at # NULL
                   /\ Val(table[i].updated_at) < time - Val(older_than_hours) * Hour
      foods_to_invalidate == { i \in DOMAIN table : by_id(i) \/ by_source(i) \/ by_age(i) }
  IN  IF db_error THEN table
      ELSE [i \in DOMAIN table |->
              IF i \in foods_to_invalidate
              THEN [table[i] EXCEPT !.updated_at = Some(time - ForcedAge)]
              ELSE table[i]]

\* invalidate_cache: the table after it.  A filter is added for every
\* criterion that is truthy; a row whose updated_at is NULL never satisfies
\* "updated_at < cutoff_time"; when the commit fails the changes are rolled
\* back and the error is logged.
invalidate_cache(table, food_id, source, older_than_hours, time, db_error) ==
  LET by_id(i) == food_id # NULL => table[i].id = food_id
      by_source(i) == (source # NULL /\ Val(source) # "") => table[i].source = source
      by_age(i) == TruthyInt(older_than_hours)
                     => /\ table[i].updated_at # NULL
                        /\ Val(table[i].updated_at) < time - Val(older_than_hours) * Hour
      foods_to_invalidate == { i \in DOMAIN table : by_id(i) /\ by_source(i) /\ by_age(i) }
  IN  IF db_error THEN table
      ELSE [i \in DOMAIN table |->
              IF i \in foods_to_invalidate
              THEN [table[i] EXCEPT !.updated_at = Some(time - ForcedAge)]
              ELSE table[i]]

\* the stored records of the calls: a Spoonacular, a USDA and a manual
\* record, each fresh, two hours old or two days old
InvalidateNow == 400 * Day
StoredAges == {0, 2 * Hour, 2 * Day}
Stored(food, i, age) ==
  [WithServerDefaults(food, InvalidateNow - age) EXCEPT !.id = Some(i)]
StoredTables ==
  { << Stored(GroceryEgg, 1, a), Stored(UsdaEgg, 2, b), Stored(BrandedEgg, 3, c) >> :
      a \in StoredAges, b \in StoredAges, c \in StoredAges }

\* the criteria of a call: an id of the table or an unknown one, a source,
\* an age in hours
FoodIdCriteria == {NULL, Some(1), Some(2), Some(9)}
SourceCriteria == {NULL, Some("usda"), Some("spoonacular")}
AgeCriteria == {NULL, Some(1), Some(24)}

InitInvalidate ==
  /\ foods \in StoredTables
  /\ schema = "orm"
  /\ now = InvalidateNow
  /\ cacheCall = NoCall
  /\ ttlCheck = NULL
  /\ verdict = NULL
  /\ safety_rules = RuleTable
  /\ runs = <<>>
  /\ resolved = <<>>
  /\ ScaleIdle
  /\ LogIdle
  /\ RetryIdle
  /\ LimiterIdle
  /\ ClassifyIdle
  /\ \E food_id \in FoodIdCriteria, source \in SourceCriteria, older_than_hours \in AgeCriteria,
        db_error \in BOOLEAN :
       invalidation = [food_id |-> food_id, source |-> source,
                       older_than_hours |-> older_than_hours, db_error |-> db_error,
                       pre |-> <<>>, done |-> FALSE]

InvalidateRest ==
  <<schema, now, cacheCall, ttlCheck, verdict, safety_rules, pipelineVars,
    scaleVars, logVars, retryVars, limiterVars, classifyVars>>

\* invalidate_cache(db, food_id, source, older_than_hours)
InvalidateCache ==
  /\ ~invalidation.done
  /\ foods' = invalidate_cache(foods, invalidation.food_id, invalidation.source,
                               invalidation.older_than_hours, now, invalidation.db_error)
  /\ invalidation' = [invalidation EXCEPT !.pre = foods, !.done = TRUE]
  /\ UNCHANGED InvalidateRest

NextInvalidate == InvalidateCache

SpecInvalidate == InitInvalidate /\ [][NextInvalidate]_vars

\* ------------------------------------------------------------------------
\* cache_food on a stored table: which duplicate it merges into
\* ------------------------------------------------------------------------
\* stored records: the Spoonacular, the USDA and the manual record and a
\* second manual record of another brand
FoodsEgg == [BrandedEgg EXCEPT !.brand = Some(<<"A","c","m","e"," ","F","o","o","d","s">>)]
StoredFoods == {GroceryEgg, UsdaEgg, BrandedEgg, FoodsEgg}

\* the tables: every choice and order of the stored records
DuplicateTables ==
  UNION { { [i \in DOMAIN p |-> Stored(p[i], i, 0)] : p \in Perms(S) } : S \in SUBSET StoredFoods }

\* the payloads: with both ids, with an id and a stored brand, with a stored
\* brand in another case, with a brand that shares one word of three with a
\* stored one, and without brand
GroceryAcme == [GroceryEgg EXCEPT !.brand = Some(<<"A","C","M","E">>)]
UsdaAcme == [UsdaEgg EXCEPT !.brand = Some(<<"a","c","m","e">>)]
LowerAcme == [BrandedEgg EXCEPT !.brand = Some(<<"a","c","m","e">>)]
FarmEgg == [BrandedEgg EXCEPT !.brand = Some(<<"A","c","m","e"," ","F","a","r","m">>)]
DuplicatePayloads == {LinkedEgg, GroceryAcme, UsdaAcme, LowerAcme, FarmEgg, SparseEgg}

InitDuplicates ==
  /\ foods \in DuplicateTables
  /\ schema \in Schemas
  /\ now = InvalidateNow
  /\ cacheCall = NoCall
  /\ ttlCheck = NULL
  /\ verdict = NULL
  /\ safety_rules = RuleTable
  /\ runs = <<>>
  /\ resolved = <<>>
  /\ ServicesIdle

\* cache_food(db, food, merge_duplicates) on the stored table
CacheStored ==
  /\ cacheCall.n = 0
  /\ \E food \in DuplicatePayloads, merge_duplicates \in BOOLEAN :
    \E out \in cache_food(schema, foods, food, merge_duplicates, now, FALSE) :
      /\ foods' = out.table
      /\ cacheCall' = [n |-> 1,
                       payload |-> Some(food),
                       merge |-> merge_duplicates,
                       prev |-> NULL,
                       pre |-> foods,
                       target |-> IF out.raised \/ Len(out.table) > Len(foods) THEN NULL ELSE out.ret,
                       ret |-> out.ret,
                       raised |-> out.raised]
      /\ UNCHANGED <<schema, now, ttlCheck, verdict, safety_rules, pipelineVars, serviceVars>>

NextDuplicates == CacheStored

SpecDuplicates == InitDuplicates /\ [][NextDuplicates]_vars

\* ------------------------------------------------------------------------
\* Properties of the resolution pipeline
\* ------------------------------------------------------------------------
\* C1: in every reachable state of concurrent fetch_food_or_ingredient runs
\* the table holds at most one row per spoonacular_id and at most one row
\* per fdc_id.
C1_OneRecordPerExternalId ==
  \A i, j \in DOMAIN foods :
    i # j => /\ ~(foods[i].spoonacular_id # NULL /\ foods[i].spoonacular_id = foods[j].spoonacular_id)
             /\ ~(foods[i].fdc_id # NULL /\ foods[i].fdc_id = foods[j].fdc_id)

\* C2: fetch_food_or_ingredient never raises to its caller: whatever stage
\* fails, the run ends by returning a Food row or None.
C2_NeverRaises ==
  \A r \in DOMAIN runs :
    /\ ~runs[r].raised
    /\ runs[r].pc = "done" => runs[r].ret = NULL \/ Val(runs[r].ret) \in DOMAIN foods

\* a run has ended, returning None, after its insert failed inside the USDA
\* fallback
C2_Witness ==
  \E r \in DOMAIN runs :
    /\ runs[r].pc = "done"
    /\ runs[r].unique_violation
    /\ runs[r].usda_called
    /\ runs[r].ret = NULL

\* C3: a run whose insert failed with a unique-constraint violation ends by
\* returning the row that now exists; it neither raises nor returns None.
C3_UniqueViolationRecovered ==
  \A r \in DOMAIN runs :
    runs[r].pc = "done" /\ runs[r].unique_violation => ~runs[r].raised /\ runs[r].ret # NULL

\* C4: a run started without force_refresh while the record a finished run
\* persisted for the same query is within its TTL calls no external source
\* and returns that record.
C4_CachedQueryShortCircuits ==
  \A r \in DOMAIN runs :
    runs[r].expect # NULL =>
      /\ ~runs[r].spoonacular_called
      /\ ~runs[r].usda_called
      /\ runs[r].pc = "done" => runs[r].ret = runs[r].expect

\* C5: a run returns None only after the USDA source has been queried in
\* that run.
C5_NotFoundOnlyAfterUsda ==
  \A r \in DOMAIN runs :
    runs[r].pc = "done" /\ ~runs[r].raised /\ runs[r].ret = NULL => runs[r].usda_called

\* C6: in a run whose query is classified as an ingredient no Spoonacular
\* call is made before the USDA source has been queried.
C6_UsdaFirstForIngredients ==
  \A r \in DOMAIN runs :
    runs[r].is_product = Some(FALSE) => runs[r].first_source # "spoonacular"

\* ------------------------------------------------------------------------
\* Properties of the cache service
\* ------------------------------------------------------------------------
\* the last cache_food call merged its payload into an existing row
Merged == ~cacheCall.raised /\ cacheCall.target # NULL
MergeExisting == cacheCall.pre[Val(cacheCall.target)]
MergeNew == Val(cacheCall.payload)
MergeResult == foods[Val(cacheCall.target)]

\* C7: after a merge every field that was non-null on the existing record is
\* still non-null, and every field that was null is filled with the new
\* record's value when that value is non-null.
C7_MergeFillsEveryField ==
  Merged =>
    \A f \in FoodFields \ {"id", "updated_at"} :
      /\ MergeExisting[f] # NULL => MergeResult[f] # NULL
      /\ (MergeExisting[f] = NULL /\ MergeNew[f] # NULL) => MergeResult[f] = MergeNew[f]

\* what the merge does keep of it: no field is nulled out, and the fields
\* of merge_fields and the two external ids are filled
MergeKeepsAndFillsMergeFields ==
  Merged =>
    /\ \A f \in FoodFields : MergeExisting[f] # NULL => MergeResult[f] # NULL
    /\ \A f \in (merge_fields \cup {"spoonacular_id", "fdc_id"}) \cap FoodFields :
         (MergeExisting[f] = NULL /\ MergeNew[f] # NULL) => MergeResult[f] = MergeNew[f]

\* the table with updated_at left out of every row
IgnoringUpdatedAt(table) == [i \in DOMAIN table |-> [table[i] EXCEPT !.updated_at = NULL]]

\* C8: calling cache_food twice in a row with the same payload leaves the
\* table as the first call left it (updated_at ignored) and adds no row.
C8_CacheFoodIdempotent ==
  (/\ cacheCall.payload # NULL
   /\ cacheCall.payload = cacheCall.prev
   /\ cacheCall.merge
   /\ ~cacheCall.raised)
  => IgnoringUpdatedAt(foods) = IgnoringUpdatedAt(cacheCall.pre)

\* ------------------------------------------------------------------------
\* Properties of is_cache_valid
\* ------------------------------------------------------------------------
\* the TTL of the claim, in seconds
ClaimTtl(source) ==
  IF source = Some("spoonacular") THEN 7 * Day
  ELSE IF source = Some("usda") THEN 30 * Day
  ELSE 3 * Day

C10_UnknownIsLimited ==
  verdict # NULL =>
    ((\A i \in DOMAIN verdict.names : ~MatchesRule(safety_rules, verdict.names[i]))
       => verdict.status = "limited")

\* ------------------------------------------------------------------------
\* Properties of check_food_safety
\* ------------------------------------------------------------------------
\* the statuses get_safety_status gives to the ingredients of a list
StatusSet(rules, ingredients) ==
  { get_safety_status(rules, ingredients[i]).status : i \in DOMAIN ingredients }

\* the list ingredients in the order p
Permuted(ingredients, p) == [i \in DOMAIN ingredients |-> ingredients[p[i]]]

\* C11: the overall status of check_food_safety is "avoid" if an ingredient
\* is "avoid", otherwise "limited" if an ingredient is "limited", otherwise
\* "safe", and every permutation of the list gives the same overall status.
C11_OverallStatusIgnoresOrder ==
  (verdict # NULL /\ verdict.path = "check_food_safety") =>
    LET statuses == StatusSet(safety_rules, verdict.names)
    IN  /\ verdict.status = IF "avoid" \in statuses THEN "avoid"
                            ELSE IF "limited" \in statuses THEN "limited"
                            ELSE "safe"
        /\ \A p \in Perms(DOMAIN verdict.names) :
             check_food_safety(safety_rules, Permuted(verdict.names, p)).status = verdict.status

\* a list with a "limited" ingredient after an "avoid" one was found "avoid"
C11_Witness ==
  /\ verdict # NULL
  /\ verdict.path = "check_food_safety"
  /\ Len(verdict.names) = 2
  /\ get_safety_status(safety_rules, verdict.names[1]).status = "avoid"
  /\ get_safety_status(safety_rules, verdict.names[2]).status = "limited"
  /\ verdict.status = "avoid"

\* ------------------------------------------------------------------------
\* Properties of the nutrition calculator
\* ------------------------------------------------------------------------
\* the last call was given a serving of its own, which scaled without error
ScaledUserServing ==
  /\ scaled # NULL
  /\ scaled.out # NULL
  /\ scaled.user_serving_size # NULL
  /\ scaled.user_serving_unit # NULL
  /\ ~calculate_consumed_nutrition_Raises(scaled.food, scaled.user_serving_size,
                                          scaled.user_serving_unit, scaled.quantity)

\* the grams of size units, by UNIT_CONVERSIONS alone (no serving units)
TableGrams(size, unit) ==
  FracMul(FromInt(size), Val(UNIT_CONVERSIONS[Strip(Lower(unit))]))

TableUnit(unit) ==
  /\ Strip(Lower(unit)) \in DOMAIN UNIT_CONVERSIONS
  /\ UNIT_CONVERSIONS[Strip(Lower(unit))] # NULL

\* C12: for a food with a non-zero base serving in a unit of the table, a user
\* serving in a unit of the table gives the multiplier (user grams / base
\* grams) * quantity, both by the table, and n "serving" units with quantity
\* q give n * q.
C12_MultiplierByGrams ==
  (/\ ScaledUserServing
   /\ Val(scaled.food.serving_size) # 0
   /\ TableUnit(Val(scaled.food.serving_unit))) =>
    LET food == scaled.food
        n == Val(scaled.user_serving_size)
        unit == Val(scaled.user_serving_unit)
        q == Val(scaled.quantity)
        base == TableGrams(Val(food.serving_size), Val(food.serving_unit))
        multiplier == Val(scaled.out).dict.multiplier
    IN  /\ TableUnit(unit) =>
             multiplier = FracMul(FracDiv(TableGrams(n, unit), base), FromInt(q))
        /\ Strip(Lower(unit)) \in {<<"s","e","r","v","i","n","g">>, <<"s","e","r","v","i","n","g","s">>} =>
             multiplier = FromInt(n * q)

\* the half of C12 about the units with a factor in the table
MultiplierByTableUnits ==
  (/\ ScaledUserServing
   /\ Val(scaled.food.serving_size) # 0
   /\ TableUnit(Val(scaled.food.serving_unit))
   /\ TableUnit(Val(scaled.user_serving_unit))) =>
    Val(scaled.out).dict.multiplier =
      FracMul(FracDiv(TableGrams(Val(scaled.user_serving_size), Val(scaled.user_serving_unit)),
                      TableGrams(Val(scaled.food.serving_size), Val(scaled.food.serving_unit))),
              FromInt(Val(scaled.quantity)))

\* ------------------------------------------------------------------------
\* Properties of the food logs and the summaries
\* ------------------------------------------------------------------------
SummaryOps == {"get_nutrition_summary", "get_daily_summary", "get_weekly_summary"}

\* the days a summary covers: the day asked for, or the seven days from it
SummaryDays(op, day) ==
  IF op = "get_weekly_summary" THEN { d \in Days : day <= d /\ d <= day + 6 } ELSE {day}

\* the logs a summary of the user over the days has to count
CountedLogs(user, days) ==
  { i \in DOMAIN food_logs : /\ food_logs[i].user_id = user
                             /\ food_logs[i].consumed_at \in days
                             /\ food_logs[i].deleted_at = NULL }

\* the sum of the values f gives to the logs of rows
RECURSIVE SumOver(_, _)
SumOver(f, rows) ==
  IF rows = {} THEN FromInt(0)
  ELSE LET i == CHOOSE i \in rows : TRUE
       IN  FracAdd(f[i], SumOver(f, rows \ {i}))

\* the snapshot the scaler would give the log from its food as it is now
LiveSnapshot(log) ==
  calculate_consumed_nutrition(foods[log.food_id], Some(log.serving_size),
                               Some(log.serving_unit), Some(log.quantity)).dict

\* the food of the log changed after the log was created
FoodChangedSince(log) ==
  \/ Val(log.calories_logged) # LiveSnapshot(log).calories_logged
  \/ Val(log.nutrients_logged) # LiveSnapshot(log).nutrients_logged

\* the totals of the summary are the sums of the snapshots of the logs
TotalsAreSnapshots(summary, rows) ==
  /\ summary.total_calories = SumOver([i \in rows |-> Val(food_logs[i].calories_logged)], rows)
  /\ \A field \in DOMAIN summary \ {"total_calories"} :
       summary[field] = SumOver([i \in rows |->
                                   DictGet(Val(food_logs[i].nutrients_logged),
                                           SummaryKey(field), FromInt(0))], rows)

\* C13: a daily or weekly summary read after the food of one of its logs
\* changed gives totals made of the snapshots stored on the logs, not of the
\* food as it is now.
C13_SummariesReadSnapshots ==
  (/\ logCall.op \in SummaryOps
   /\ \E i \in CountedLogs(logCall.user, SummaryDays(logCall.op, logCall.day)) :
        FoodChangedSince(food_logs[i])) =>
    /\ logCall.summary # NULL
    /\ TotalsAreSnapshots(Val(logCall.summary),
                          CountedLogs(logCall.user, SummaryDays(logCall.op, logCall.day)))

\* the half of C13 that holds: get_nutrition_summary adds up snapshots
NutritionSummaryReadsSnapshots ==
  logCall.op = "get_nutrition_summary" =>
    /\ logCall.summary # NULL
    /\ TotalsAreSnapshots(Val(logCall.summary), CountedLogs(logCall.user, {logCall.day}))

\* the snapshots on the logs are written once: no later step changes them
SnapshotsAreFrozen ==
  [][\A i \in DOMAIN food_logs :
       /\ i \in DOMAIN food_logs'
       /\ food_logs'[i].calories_logged = food_logs[i].calories_logged
       /\ food_logs'[i].nutrients_logged = food_logs[i].nutrients_logged]_vars

\* C14: a daily or weekly summary of a user who soft-deleted a log of the
\* day gives as calorie total the logged calories of the user's remaining
\* logs of the day.
C14_AggregatesSkipDeleted ==
  (/\ logCall.op \in SummaryOps
   /\ \E i \in DOMAIN food_logs :
        /\ food_logs[i].user_id = logCall.user
        /\ food_logs[i].consumed_at \in SummaryDays(logCall.op, logCall.day)
        /\ food_logs[i].deleted_at # NULL) =>
    /\ logCall.status = 200
    /\ logCall.summary # NULL
    /\ Val(logCall.summary).total_calories =
         LET rows == CountedLogs(logCall.user, SummaryDays(logCall.op, logCall.day))
         IN  SumOver([i \in rows |-> Val(food_logs[i].calories_logged)], rows)

\* the half of C14 that holds: get_nutrition_summary counts the user's logs
\* of the day that are not soft-deleted
NutritionSummarySkipsDeleted ==
  logCall.op = "get_nutrition_summary" =>
    Val(logCall.summary).total_calories =
      LET rows == CountedLogs(logCall.user, {logCall.day})
      IN  SumOver([i \in rows |-> Val(food_logs[i].calories_logged)], rows)

\* C15: when scaling the food raises, calculate_consumed_nutrition gives
\* log_food a snapshot with calories 0, every macro-nutrient 0 and
\* multiplier 0, and log_food creates the log entry with it.
C15_ScalingErrorStillLogs ==
  (/\ logCall.op = "log_food"
   /\ logCall.food_id \in DOMAIN foods
   /\ ~logCall.db_error
   /\ calculate_consumed_nutrition_Raises(foods[logCall.food_id], Some(logCall.serving_size),
                                          Some(<<"s","e","r","v","i","n","g">>), Some(1))) =>
    /\ logCall.status = 201
    /\ logCall.nutrition # NULL
    /\ Val(logCall.nutrition).calories_logged = FromInt(0)
    /\ Val(logCall.nutrition).multiplier = FromInt(0)
    /\ \A f \in Macros : Val(logCall.nutrition).nutrients_logged[MacroKey(f)] = FromInt(0)
    /\ logCall.log_id \in DOMAIN food_logs
    /\ food_logs[logCall.log_id].food_id = logCall.food_id
    /\ food_logs[logCall.log_id].calories_logged = Some(FromInt(0))
    /\ food_logs[logCall.log_id].nutrients_logged = Some(Val(logCall.nutrition).nutrients_logged)

\* a log of the food with the micronutrient entry without amount was created
C15_Witness ==
  /\ logCall.op = "log_food"
  /\ logCall.status = 201
  /\ calculate_consumed_nutrition_Raises(foods[logCall.food_id], Some(logCall.serving_size),
                                         Some(<<"s","e","r","v","i","n","g">>), Some(1))
  /\ food_logs[logCall.log_id].calories_logged = Some(FromInt(0))

\* ------------------------------------------------------------------------
\* Properties of the retry handler
\* ------------------------------------------------------------------------
NonTransient == { s \in Statuses : 400 <= s /\ s < 500 /\ s # 429 }

\* C17: a request that meets a 4xx response other than 429 is attempted
\* exactly once.
C17_NonTransientNotRetried ==
  (/\ req.pc = "done"
   /\ \E i \in DOMAIN req.log : req.log[i].status_code \in NonTransient) => req.sent = 1

\* the half of C17 that holds: a 429 response and a transport failure are
\* followed by another attempt as long as attempts are left
TransientRetried ==
  (/\ req.pc = "done"
   /\ req.log[Len(req.log)] \in {ResponseOf(429), NoResponse("transport_error")}) =>
    Len(req.log) = max_retries + 1

\* C16: at most Limit slots are granted in any 60 seconds, under every
\* interleaving of the callers of acquire and wait_for_slot, and the request
\* times recorded in the window are those of the grants and no others (a
\* denied acquire records none).
C16_WindowNeverExceedsLimit ==
  /\ Len(limiter.granted) <= Limit
  /\ SelectSeq(limiter.request_times, LAMBDA t : t > limiter.clock - Window) = limiter.granted

\* after the first window: the limit is reached again, an acquire was denied
\* and a caller of wait_for_slot is between two polls
C16_Witness ==
  /\ limiter.clock > Window
  /\ Len(limiter.granted) = Limit
  /\ \E c, d \in Callers :
       /\ limiter.callers[c].pc = "done"
       /\ limiter.callers[c].kind = "acquire"
       /\ ~limiter.callers[c].result
       /\ limiter.callers[d].pc = "sleeping"
       /\ limiter.callers[d].kind = "wait_for_slot"

\* C18: while a caller of wait_for_slot sleeps between two polls the lock of
\* the service is free.
C18_SleeperHoldsNoLock ==
  \A c \in Callers : limiter.callers[c].pc = "sleeping" => limiter.holder = 0

\* what the sleep under the lock does to the others: a caller of acquire
\* waits for the lock that a sleeper holds
AcquireBlockedBySleeper ==
  \E c, d \in Callers :
    /\ limiter.callers[c].pc = "sleeping"
    /\ limiter.holder = c
    /\ limiter.callers[d].pc = "lock_acquire"

\* C19: a call of wait_for_slot that returns False has taken at most
\* max_wait plus one polling sleep.
C19_TimeoutWithinOneSleep ==
  \A c \in Callers :
    (limiter.callers[c].pc = "done" /\ limiter.callers[c].kind = "wait_for_slot"
       /\ ~limiter.callers[c].result)
      => limiter.callers[c].waited <= max_wait + MaxSleep

\* the parts of C19 that hold: False is returned only after max_wait, and
\* True only in the step in which the caller's own slot was recorded
FalseOnlyAfterMaxWait ==
  \A c \in Callers :
    (limiter.callers[c].pc = "done" /\ limiter.callers[c].kind = "wait_for_slot"
       /\ ~limiter.callers[c].result)
      => limiter.callers[c].waited >= max_wait

TrueOnlyAfterOwnSlot ==
  [][\A c \in Callers :
       (limiter.callers[c].pc # "done" /\ limiter'.callers[c].pc = "done"
          /\ limiter'.callers[c].result)
         => /\ limiter'.request_times = Append(DropOld(limiter.request_times, limiter.clock - Window),
                                               limiter.clock)
            /\ limiter'.clock = limiter.clock]_vars

\* C20: classify_and_search returns type "ingredient" for every query of the
\* allowlist, whatever the scores and the answers of the searches.
C20_AllowlistIsIngredient ==
  classified.pc = "return" => classified.type = "ingredient"

\* what holds of the allowlist: every query of it is accepted by
\* _is_basic_ingredient, and it is an ingredient unless the scores make it a
\* product and the search of the products finds something
AllowlistIsBasic ==
  _is_basic_ingredient(classified.query)

IngredientUnlessProductsFound ==
  (classified.pc = "return"
     /\ ~(_classify_as_product(classified.query) /\ classified.products # <<>>))
    => classified.type = "ingredient"

\* a record is among those the criteria of the call name: every criterion
\* that was given holds of it
MatchesCriteria(row) ==
  /\ invalidation.food_id # NULL => row.id = invalidation.food_id
  /\ invalidation.source # NULL => row.source = invalidation.source
  /\ invalidation.older_than_hours # NULL
       => Val(row.updated_at) < now - Val(invalidation.older_than_hours) * Hour

C22_WeeklySummarySevenDays ==
  logCall.op = "get_weekly_summary"
    => /\ logCall.status = 200
       /\ logCall.summary # NULL
       /\ Len(Val(logCall.summary)) = 7

\* the table holds at most one record per spoonacular_id and per fdc_id
OnePerExternalId(table) ==
  \A id \in {11, 31} :
    /\ Cardinality({ i \in DOMAIN table : table[i].spoonacular_id = Some(id) }) <= 1
    /\ Cardinality({ i \in DOMAIN table : table[i].fdc_id = Some(id) }) <= 1

\* C23: a cache_food call with merge_duplicates on a table that holds at
\* most one record per external id leaves a table that holds at most one
\* record per external id, also when the merge backfills an external id.
C23_CacheFoodKeepsIdsUnique ==
  [][(cacheCall'.n = cacheCall.n + 1 /\ cacheCall'.merge /\ OnePerExternalId(foods))
       => OnePerExternalId(foods')]_vars

\* the scalar fields of a record
ScalarFields ==
  { "name", "brand", "category", "serving_size", "serving_unit", "calories", "protein",
    "carbs", "fat", "fiber", "sugar", "safety_status", "safety_notes" }

\* C24: after a merge every scalar field that was non-null on the existing
\* record has the value it had before.
C24_MergeKeepsScalars ==
  Merged =>
    \A f \in ScalarFields : MergeExisting[f] # NULL => MergeResult[f] = MergeExisting[f]

\* what holds: the scalar fields other than the two safety fields are kept
MergeKeepsScalarsButSafety ==
  Merged =>
    \A f \in ScalarFields \ {"safety_status", "safety_notes"} :
      MergeExisting[f] # NULL => MergeResult[f] = MergeExisting[f]

\* the snapshot of the log of the last request is what the scaler gives for
\* the log's serving size, unit and quantity and its food
SnapshotIsScalerOutput ==
  LET log == food_logs[logCall.log_id]
      out == calculate_consumed_nutrition(foods[log.food_id], Some(log.serving_size),
                                          Some(log.serving_unit), Some(log.quantity)).dict
  IN  /\ log.calories_logged = Some(out.calories_logged)
      /\ log.nutrients_logged = Some(out.nutrients_logged)

\* C25: after a log_food that created a log and after an update_food_log
\* that committed, the snapshot of the log is the scaler's output for the
\* log's current serving.
C25_SnapshotFollowsServing ==
  (\/ logCall.op = "log_food" /\ logCall.status = 201
   \/ logCall.op = "update_food_log" /\ logCall.status # 404)
    => SnapshotIsScalerOutput

\* what holds: the snapshot of a log that log_food has just created
LogFoodSnapshotIsScalerOutput ==
  (logCall.op = "log_food" /\ logCall.status = 201) => SnapshotIsScalerOutput

\* C26: retry_with_backoff invokes the wrapped call at most max_retries + 1
\* times, max_retries being the value the caller passed, 0 included, or the
\* default of the handler when none was passed.
C26_AtMostPassedPlusOne ==
  req.pc # "idle" =>
    Len(req.log) <= (IF req.passed = NULL THEN max_retries ELSE Val(req.passed)) + 1

\* what holds: the bound with the value the loop runs on, and the error of
\* the last attempt as the result of a call that used all its attempts
AtMostEffectivePlusOne ==
  req.pc # "idle" =>
    /\ Len(req.log) <= effective_max_retries(req.passed) + 1
    /\ req.attempt <= effective_max_retries(req.passed)
    /\ (req.pc = "done" /\ req.result # "response") =>
         req.result = Raised(req.log[Len(req.log)])

\* the records of a table a payload matches, strategy by strategy
BySpoonacularId(table, new) ==
  { i \in DOMAIN table : new.spoonacular_id # NULL /\ table[i].spoonacular_id = new.spoonacular_id }
ByFdcId(table, new) ==
  { i \in DOMAIN table : new.fdc_id # NULL /\ table[i].fdc_id = new.fdc_id }
ByNameAndBrand(table, new) ==
  { i \in DOMAIN table : /\ new.brand # NULL
                         /\ table[i].brand # NULL
                         /\ Lower(Val(table[i].name)) = Lower(Val(new.name))
                         /\ Lower(Val(table[i].brand)) = Lower(Val(new.brand)) }
ByFuzzyName(table, new) ==
  { i \in DOMAIN table : SimilarAbove80(Val(new.name), Val(table[i].name), new.brand, table[i].brand) }
PriorityMatches(table, new) ==
  IF BySpoonacularId(table, new) # {} THEN BySpoonacularId(table, new)
  ELSE IF ByFdcId(table, new) # {} THEN ByFdcId(table, new)
  ELSE IF ByNameAndBrand(table, new) # {} THEN ByNameAndBrand(table, new)
  ELSE ByFuzzyName(table, new)

\* C27: the record cache_food merges into matches the payload's Spoonacular
\* id if a record does, else its FDC id, else its name and brand whatever
\* the case, else its name with a similarity above 0.8; a record of one of
\* the first three kinds is always merged into.
C27_MergeTargetPriority ==
  (cacheCall.n > 0 /\ cacheCall.merge /\ ~cacheCall.raised) =>
    LET table == cacheCall.pre
        new == Val(cacheCall.payload)
    IN  IF cacheCall.target = NULL
        THEN BySpoonacularId(table, new) \cup ByFdcId(table, new) \cup ByNameAndBrand(table, new) = {}
        ELSE Val(cacheCall.target) \in PriorityMatches(table, new)

\* a payload merged into the record of similarity 0.85 beside a record of
\* similarity 0.8
C27_Witness ==
  /\ cacheCall.n > 0 /\ cacheCall.merge /\ ~cacheCall.raised
  /\ cacheCall.payload = Some(FarmEgg)
  /\ cacheCall.target # NULL
  /\ \E i \in DOMAIN cacheCall.pre : cacheCall.pre[i].brand = FoodsEgg.brand
  /\ cacheCall.pre[Val(cacheCall.target)].brand = BrandedEgg.brand

\* the food of the call has a base serving of 0 in some unit
ZeroBase == scaled.food.serving_size = Some(0) /\ scaled.food.serving_unit # NULL

\* (user serving in grams / 100) * quantity for the call
MultiplierOnHundredGrams ==
  LET s == normalize_serving_info(scaled.food, scaled.user_serving_size, scaled.user_serving_unit)
      user_serving_grams == convert_to_base_units(Val(s.size), Val(s.unit), scaled.food)
  IN  FracMul(FracDiv(user_serving_grams, FromInt(100)), FromInt(Val(scaled.quantity)))

\* C28: for a food whose base serving is 0 grams the multiplier is computed
\* against 100 g, (user serving in grams / 100) * quantity, and nothing is
\* raised.
C28_ZeroBaseUsesHundredGrams ==
  (scaled.out # NULL /\ ZeroBase) =>
    /\ ~calculate_nutrition_multiplier_Raises(
          scaled.food,
          normalize_serving_info(scaled.food, scaled.user_serving_size, scaled.user_serving_unit).size,
          normalize_serving_info(scaled.food, scaled.user_serving_size, scaled.user_serving_unit).unit,
          scaled.quantity)
    /\ Val(scaled.out).dict.multiplier = MultiplierOnHundredGrams

\* three ounces of a food stored with a base serving of 0 cups, twice
C28_Witness ==
  /\ scaled.out # NULL
  /\ scaled.food.serving_size = Some(0)
  /\ scaled.food.serving_unit = Some(<<"c","u","p">>)
  /\ scaled.user_serving_size = Some(3)
  /\ scaled.user_serving_unit = Some(<<"o","z">>)
  /\ scaled.quantity = Some(2)
  /\ Val(scaled.out).dict.multiplier.num > 0

ReturnedWithoutFallbackIsValid ==
  [][\A r \in Runs :
       (/\ runs[r].pc # "done" /\ runs'[r].pc = "done" /\ runs'[r].ret # NULL
        /\ ~runs'[r].usda_called) =>
         is_cache_valid(foods'[Val(runs'[r].ret)], now')]_vars


LogIdRequests == {"get_food_log", "update_food_log", "delete_food_log"}

\* C30: a log whose deleted_at is set stays in the table with every field
\* as it is, deleted_at included, whatever get, update or delete request
\* follows, and a request of one of these kinds on its id answers 404.
C30_SoftDeletionIsTerminal ==
  [][\A i \in DOMAIN food_logs :
       food_logs[i].deleted_at # NULL =>
         /\ i \in DOMAIN food_logs'
         /\ food_logs'[i] = food_logs[i]
         /\ (logCall'.op \in LogIdRequests /\ logCall'.log_id = food_logs[i].id) =>
              logCall'.status = 404]_vars

\* the owner's update of a log that was deleted has been answered
C30_Witness ==
  /\ logCall.op = "update_food_log"
  /\ logCall.log_id \in DOMAIN food_logs
  /\ food_logs[logCall.log_id].deleted_at # NULL
  /\ food_logs[logCall.log_id].user_id = logCall.user
  /\ logCall.status = 404

====
